---------------------------- MODULE Spec2Model ----------------------------
(***************************************************************************)
(* A model of csvd-rust: the complex singular value decomposition csvd     *)
(* (src/src/csvd.rs, a port of ACM Algorithm 358) and the pseudo-inverse   *)
(* built from it (src/src/lib.rs).                                         *)
(*                                                                         *)
(* Numbers are IEEE-754 binary32 values, as the f32 / Complex32 of the     *)
(* source.  A value is kept as one integer, its bit pattern in an ordered  *)
(* encoding: a value with sign bit 0 and bit pattern b is the integer b,   *)
(* a value with sign bit 1 and remaining bits b is the integer -b-1.       *)
(* Every arithmetic operation rounds to nearest, ties to even.             *)
(* Vectors (Vec<T>, [T; NBIG]) are sequences; element i of the source is   *)
(* element i+1 of the sequence, and an index outside the vector panics.    *)
(***************************************************************************)
EXTENDS Integers, Sequences, FiniteSets, TLC

-----------------------------------------------------------------------------
(* binary32 arithmetic *)

Pow2(k) ==
  << 1, 2, 4, 8, 16, 32, 64, 128, 256, 512, 1024, 2048, 4096, 8192, 16384,
     32768, 65536, 131072, 262144, 524288, 1048576, 2097152, 4194304,
     8388608, 16777216, 33554432, 67108864, 134217728, 268435456,
     536870912, 1073741824 >>[k + 1]

\* the bit pattern of +infinity, 0x7F800000
FInf == 255 * Pow2(23)
\* a quiet NaN, 0x7FC00000
FNaN == FInf + Pow2(22)
FZero == 0
\* 1.0f32 = 0x3F800000
FOne == 127 * Pow2(23)

FSign(x) == IF x < 0 THEN 1 ELSE 0
FBits(x) == IF x < 0 THEN -x - 1 ELSE x
FNeg(x) == -x - 1
abs(x) == FBits(x)
FWithSign(sg, bits) == IF sg = 1 THEN -bits - 1 ELSE bits
IsNaN(x) == FBits(x) > FInf
IsInf(x) == FBits(x) = FInf
IsZero(x) == FBits(x) = 0
IsFinite(x) == FBits(x) < FInf

\* number of significant bits of a natural number below 2^31
BitLen(x) ==
  IF x < 65536
  THEN IF x < 256
       THEN IF x < 16
            THEN IF x < 4 THEN (IF x < 2 THEN x ELSE 2)
                          ELSE (IF x < 8 THEN 3 ELSE 4)
            ELSE IF x < 64 THEN (IF x < 32 THEN 5 ELSE 6)
                           ELSE (IF x < 128 THEN 7 ELSE 8)
       ELSE IF x < 4096
            THEN IF x < 1024 THEN (IF x < 512 THEN 9 ELSE 10)
                             ELSE (IF x < 2048 THEN 11 ELSE 12)
            ELSE IF x < 16384 THEN (IF x < 8192 THEN 13 ELSE 14)
                              ELSE (IF x < 32768 THEN 15 ELSE 16)
  ELSE IF x < 16777216
       THEN IF x < 1048576
            THEN IF x < 262144 THEN (IF x < 131072 THEN 17 ELSE 18)
                               ELSE (IF x < 524288 THEN 19 ELSE 20)
            ELSE IF x < 4194304 THEN (IF x < 2097152 THEN 21 ELSE 22)
                                ELSE (IF x < 8388608 THEN 23 ELSE 24)
       ELSE IF x < 268435456
            THEN IF x < 67108864 THEN (IF x < 33554432 THEN 25 ELSE 26)
                                 ELSE (IF x < 134217728 THEN 27 ELSE 28)
            ELSE IF x < 1073741824 THEN (IF x < 536870912 THEN 29 ELSE 30)
                                   ELSE 31

\* the significand of a finite non-zero magnitude, scaled into 2^23 .. 2^24-1
FMant(bits) ==
  LET e == bits \div 8388608
      f == bits % 8388608
  IN  IF e = 0 THEN f * Pow2(24 - BitLen(f)) ELSE f + 8388608

\* its exponent: the magnitude is FMant(bits) * 2^FExp(bits)
FExp(bits) ==
  LET e == bits \div 8388608
      f == bits % 8388608
  IN  IF e = 0 THEN BitLen(f) - 24 - 149 ELSE e - 150

\* The rounded magnitude q1 at exponent e1, packed with its sign; infinity
\* when the exponent or the carry of the rounding leaves the range.
RoundFinish(sg, e1, q1) ==
  IF e1 + 149 >= 255 THEN FWithSign(sg, FInf)
  ELSE IF (e1 + 149) * 8388608 + q1 >= FInf THEN FWithSign(sg, FInf)
  ELSE FWithSign(sg, (e1 + 149) * 8388608 + q1)

\* Round to nearest, ties to even: q is the kept part, r the part dropped
\* and half the weight of half a unit of q.
RoundUp(sg, e1, q, r, half, sticky) ==
  RoundFinish(sg, e1,
              IF r > half \/ (r = half /\ (sticky \/ q % 2 = 1))
              THEN q + 1 ELSE q)

\* sig * 2^ex brought to the exponent e1 of the result
RoundAt(sg, ex, sig, sticky, e1) ==
  IF e1 - ex <= 0
  THEN (IF e1 + 149 >= 255
        THEN FWithSign(sg, FInf)
        ELSE FWithSign(sg, (e1 + 149) * 8388608 + sig * Pow2(ex - e1)))
  ELSE IF e1 - ex > 30
  THEN FWithSign(sg, 0)
  ELSE RoundUp(sg, e1, sig \div Pow2(e1 - ex), sig % Pow2(e1 - ex),
               Pow2(e1 - ex - 1), sticky)

\* the exponent of the result for a significand of len bits: that of a
\* 24-bit significand, and -149 for a subnormal result
RoundLen(sg, ex, sig, sticky, len) ==
  RoundAt(sg, ex, sig, sticky,
          IF ex + len - 24 < -149 THEN -149 ELSE ex + len - 24)

\* The nearest binary32 to sig * 2^ex (ties to even); sticky says that the
\* exact value is a little above sig * 2^ex (by less than one unit of sig).
\* sig > 0; with sticky set, sig carries at least 25 bits.
RoundPack(sg, ex, sig, sticky) == RoundLen(sg, ex, sig, sticky, BitLen(sig))

\* the 48-bit product hh * 2^24 + mid * 2^12 + lowlo, rounded
FMulSum(sg, ex, hh, mid, lowlo) ==
  RoundPack(sg, ex, (hh + (mid \div 4096)) * 8 + ((mid % 4096) \div 512),
            (mid % 512 # 0) \/ (lowlo # 0))

\* the product of two 24-bit significands, from their 12-bit halves
FMulMant(sg, ex, ma, mb) ==
  FMulSum(sg, ex,
          (ma \div 4096) * (mb \div 4096),
          (ma \div 4096) * (mb % 4096) + (ma % 4096) * (mb \div 4096)
            + (((ma % 4096) * (mb % 4096)) \div 4096),
          ((ma % 4096) * (mb % 4096)) % 4096)

\* x * y
FMul(x, y) ==
  IF IsNaN(x) \/ IsNaN(y) THEN FNaN
  ELSE IF IsInf(x) \/ IsInf(y)
  THEN (IF IsZero(x) \/ IsZero(y) THEN FNaN
        ELSE FWithSign((FSign(x) + FSign(y)) % 2, FInf))
  ELSE IF IsZero(x) \/ IsZero(y) THEN FWithSign((FSign(x) + FSign(y)) % 2, 0)
  ELSE FMulMant((FSign(x) + FSign(y)) % 2,
                FExp(FBits(x)) + FExp(FBits(y)) + 21,
                FMant(FBits(x)), FMant(FBits(y)))

\* sig shifted right by d places, any bit shifted out kept in the last place
ShiftRightJam(sig, d) ==
  IF d = 0 THEN sig
  ELSE IF d > 30 THEN 1
  ELSE IF sig % Pow2(d) # 0 /\ (sig \div Pow2(d)) % 2 = 0
  THEN (sig \div Pow2(d)) + 1
  ELSE sig \div Pow2(d)

\* the sum of two aligned significands; sb is the sign of the larger
FAddAligned(sb, ss, ex, big, small) ==
  IF sb = ss THEN RoundPack(sb, ex, big + small, FALSE)
  ELSE IF big = small THEN 0
  ELSE RoundPack(sb, ex, big - small, FALSE)

\* the sum of a magnitude bb and a magnitude bs <= bb, with their signs
FAddOrdered(sb, bb, ss, bs) ==
  FAddAligned(sb, ss, FExp(bb) - 3, FMant(bb) * 8,
              ShiftRightJam(FMant(bs) * 8, FExp(bb) - FExp(bs)))

\* x + y
FAdd(x, y) ==
  IF IsNaN(x) \/ IsNaN(y) THEN FNaN
  ELSE IF IsInf(x)
  THEN (IF IsInf(y) /\ FSign(x) # FSign(y) THEN FNaN ELSE x)
  ELSE IF IsInf(y) THEN y
  ELSE IF IsZero(x) /\ IsZero(y)
  THEN (IF FSign(x) = 1 /\ FSign(y) = 1 THEN x ELSE 0)
  ELSE IF IsZero(x) THEN y
  ELSE IF IsZero(y) THEN x
  ELSE IF FBits(x) >= FBits(y)
  THEN FAddOrdered(FSign(x), FBits(x), FSign(y), FBits(y))
  ELSE FAddOrdered(FSign(y), FBits(y), FSign(x), FBits(x))

\* x - y
FSub(x, y) == FAdd(x, FNeg(y))

\* Long division, five bits of the quotient at a step: the quotient and the
\* remainder after the steps i .. 4
RECURSIVE FDivDigits(_, _, _, _)
FDivDigits(i, mb, quo, rem) ==
  IF i = 5 THEN << quo, rem >>
  ELSE FDivDigits(i + 1, mb, quo * 32 + ((rem * 32) \div mb),
                  (rem * 32) % mb)

\* the quotient res[1] with remainder res[2], rounded
FDivPack(sg, ex, res) == RoundPack(sg, ex, res[1], res[2] # 0)

\* the quotient of two 24-bit significands
FDivMant(sg, ex, ma, mb) ==
  FDivPack(sg, ex, FDivDigits(0, mb, ma \div mb, ma % mb))

\* x / y
FDiv(x, y) ==
  IF IsNaN(x) \/ IsNaN(y) THEN FNaN
  ELSE IF IsInf(x)
  THEN (IF IsInf(y) THEN FNaN
        ELSE FWithSign((FSign(x) + FSign(y)) % 2, FInf))
  ELSE IF IsInf(y) THEN FWithSign((FSign(x) + FSign(y)) % 2, 0)
  ELSE IF IsZero(y)
  THEN (IF IsZero(x) THEN FNaN
        ELSE FWithSign((FSign(x) + FSign(y)) % 2, FInf))
  ELSE IF IsZero(x) THEN FWithSign((FSign(x) + FSign(y)) % 2, 0)
  ELSE FDivMant((FSign(x) + FSign(y)) % 2,
                FExp(FBits(x)) - FExp(FBits(y)) - 25,
                FMant(FBits(x)), FMant(FBits(y)))

\* The digit-by-digit square root of the radicand rad (a 26-bit number
\* followed by zeros), two bits of rad at a step; r1 is the remainder with
\* the two bits brought down.  The result is the root and the remainder.
RECURSIVE SqrtDigits(_, _, _, _)
SqrtStep(i, rad, root, r1) ==
  IF r1 >= root * 4 + 1
  THEN SqrtDigits(i + 1, rad, root * 2 + 1, r1 - (root * 4 + 1))
  ELSE SqrtDigits(i + 1, rad, root * 2, r1)

SqrtDigits(i, rad, root, rem) ==
  IF i = 26 THEN << root, rem >>
  ELSE SqrtStep(i, rad, root,
                rem * 4
                  + (IF i < 13 THEN (rad \div Pow2(2 * (12 - i))) % 4 ELSE 0))

\* the root res[1] with remainder res[2], rounded
FSqrtPack(ex, res) == RoundPack(0, ex, res[1], res[2] # 0)

\* the square root of the magnitude mant * 2^ex
FSqrtMant(ex, mant) ==
  FSqrtPack((ex - (ex % 2) - 26) \div 2,
            SqrtDigits(0, mant * (1 + (ex % 2)), 0, 0))

\* the square root of x
sqrt(x) ==
  IF IsNaN(x) THEN FNaN
  ELSE IF IsZero(x) THEN x
  ELSE IF x < 0 THEN FNaN
  ELSE IF IsInf(x) THEN x
  ELSE FSqrtMant(FExp(FBits(x)), FMant(FBits(x)))

\* comparisons: -0 = +0, and every comparison with a NaN is false
FOrd(x) == IF x = -1 THEN 0 ELSE x
FLt(x, y) == ~IsNaN(x) /\ ~IsNaN(y) /\ FOrd(x) < FOrd(y)
FLe(x, y) == ~IsNaN(x) /\ ~IsNaN(y) /\ FOrd(x) <= FOrd(y)
FEq(x, y) == ~IsNaN(x) /\ ~IsNaN(y) /\ FOrd(x) = FOrd(y)
FGt(x, y) == FLt(y, x)

\* f32::max: the other operand when one is a NaN
FMax(x, y) ==
  IF IsNaN(x) THEN y
  ELSE IF IsNaN(y) THEN x
  ELSE IF FLt(x, y) THEN y ELSE x

-----------------------------------------------------------------------------
(* Complex32 of num_complex: a pair << re, im >>; the operators are those   *)
(* the source uses.                                                        *)

CZero == << FZero, FZero >>
COne == << FOne, FZero >>
CAdd(x, y) == << FAdd(x[1], y[1]), FAdd(x[2], y[2]) >>
CSub(x, y) == << FSub(x[1], y[1]), FSub(x[2], y[2]) >>
CNeg(x) == << FNeg(x[1]), FNeg(x[2]) >>
CConj(x) == << x[1], FNeg(x[2]) >>
CMul(x, y) ==
  << FSub(FMul(x[1], y[1]), FMul(x[2], y[2])),
     FAdd(FMul(x[1], y[2]), FMul(x[2], y[1])) >>
\* Complex32 * f32 and Complex32 / f32
CScale(x, r) == << FMul(x[1], r), FMul(x[2], r) >>
CDivF(x, r) == << FDiv(x[1], r), FDiv(x[2], r) >>

\* powf(x, 2.0) of libm, which returns x * x for the exponent 2
Powf2(x) == FMul(x, x)
cabs(x) == sqrt(FAdd(Powf2(x[1]), Powf2(x[2])))

-----------------------------------------------------------------------------
(* vectors *)

\* element i (from 0) of a vector, and the vector with element i replaced
At(vec, i) == vec[i + 1]
Put(vec, i, x) == [vec EXCEPT ![i + 1] = x]
InB(vec, i) == i >= 0 /\ i < Len(vec)
Fill(len, x) == [i \in 1..len |-> x]

\* the binary32 value of a small integer
FromInt(j) ==
  IF j = 0 THEN FZero
  ELSE IF j < 0 THEN RoundPack(1, 0, -j, FALSE)
  ELSE RoundPack(0, 0, j, FALSE)

\* the binary32 value nearest to the decimal literal num / den
Lit(num, den) == FDiv(FromInt(num), FromInt(den))

-----------------------------------------------------------------------------
(* the program's constants *)

NBIG == 150

\* csvd.rs line 131: 1.5 * powf(10.0, -31.0), the power being the binary32
\* value nearest to 1e-31, 0x0C01CEB3
tol == FMul(Lit(3, 2), 24 * Pow2(23) + 118451)
\* csvd.rs line 235: 1.1920929 * powf(10.0, -7.0), the power being the
\* binary32 value nearest to 1e-7
eta == FMul(Lit(11920929, 10000000), Lit(1, 10000000))

\* lib.rs line 175: the cut-off of find_pinv_from_svd
PinvEps == Lit(1, 10000)

\* the four errors of csvd
ErrN1 == "Fatal Error = Input N < 1"
ErrNBIG == "Fatal Error: NBIG < N"
ErrM1 == "Fatal Error: Input M < 1"
ErrMN == "Fatal Error: M < N"

-----------------------------------------------------------------------------
(* the state *)

VARIABLES
  pc,      \* where the call stands
  op,      \* the function the caller called: "csvd", "pinv", "find_pinv"
  m, n, p, nu, nv,   \* the arguments of csvd (m rows, n columns)
  a, s, u, v,        \* the caller's buffers A, S, U, V
  inv,               \* the buffer of the pseudo-inverse
  b, c, t,           \* the work arrays of csvd
  eps, k, l, w,      \* locals of csvd that live across its loops
  ret,               \* what the call returned, "none" while it runs
  input,             \* which matrix of the catalogue the caller passed
  layout,            \* how the caller laid A out
  sin,               \* S as the caller passed it
  sread,             \* the indices of S that the product loop has read
  other,             \* a second call of csvd, suspended between two steps,
                     \* and as its last element the arguments of the first
                     \* call and what that call left when it ran alone
  lib,               \* the arguments and buffers of a call of matrix_mult
                     \* or aligned_alloc
  used               \* the indices the call has used on S, T, B and C, as
                     \* pairs << "s", i >>

vars == << pc, op, m, n, p, nu, nv, a, s, u, v, inv, b, c, t, eps, k, l, w,
           ret, input, layout, sin, sread, other, lib, used >>

-----------------------------------------------------------------------------
(* what the caller passes *)

Cx(re, im) == << FromInt(re), FromInt(im) >>

\* The catalogue of input matrices: matrix number j has, at row r and column
\* q of its cols columns, the entry number (r * cols + q) of cycle j + 1,
\* counted round the cycle.  An entry << re, im >> is the number re + im i.
Catalogue ==
  << << <<1, 0>>, <<2, 0>>, <<0, 1>>, <<1, 1>> >>,
     << <<1, 0>> >>,
     << <<0, 0>>, <<1, 0>>, <<0, 0>>, <<0, 0>> >>,
     << <<1, 0>>, <<0, 0>>, <<0, 0>>, <<2, 0>>, <<0, 0>> >>,
     << <<0, 0>> >>,
     << <<0, 0>>, <<0, 0>>, <<-1, 2>>, <<-2, 3>>, <<1, 0>>, <<0, 1>>,
        <<3, 0>> >>,
     << <<3, 4>>, <<0, -1>>, <<-2, 0>>, <<1, 1>>, <<0, 2>> >>,
     << <<1, 0>>, <<1, 0>>, <<0, 0>> >>,
     << <<2, 1>>, <<0, 0>>, <<1, -1>>, <<0, 3>>, <<-1, 0>>, <<4, 0>>,
        <<0, 0>>, <<1, 2>> >>,
     << <<1, 0>>, <<0, 0>>, <<0, 0>>, <<0, 0>> >>,
     << <<0, 2>>, <<1, 0>>, <<1, 0>>, <<0, 0>>, <<3, -1>>, <<1, 0>>,
        <<2, 2>>, <<0, 0>>, <<0, 0>>, <<-4, 1>>, <<1, 1>> >> >>

\* entry number idx, counted round the cycle cyc
CycleAt(cyc, idx) ==
  Cx(cyc[(idx % Len(cyc)) + 1][1], cyc[(idx % Len(cyc)) + 1][2])

Entry(inp, r, q, cols) == CycleAt(Catalogue[inp + 1], r * cols + q)

\* the length of the buffer A, and the matrix element kept at position idx:
\* "tight" is the row-major M x (N+P) matrix of M*(N+P) elements; "strided"
\* keeps row r at r*M, which is where csvd looks for it.
ALen(rows, cols, lay) ==
  IF rows = 0 \/ cols = 0 THEN 0
  ELSE IF lay = "tight" THEN rows * cols
  ELSE IF rows * rows > (rows - 1) * rows + cols THEN rows * rows
  ELSE (rows - 1) * rows + cols

InputA(inp, rows, cols, lay) ==
  [ j \in 1..ALen(rows, cols, lay) |->
      LET idx == j - 1
          str == IF lay = "tight" THEN cols ELSE rows
          r == IF idx \div str > rows - 1 THEN rows - 1 ELSE idx \div str
          q == idx - r * str
      IN  IF q < cols THEN Entry(inp, r, q, cols) ELSE CZero ]

-----------------------------------------------------------------------------
(* csvd, src/src/csvd.rs *)

\* the checks with the capacity test off by one, N = NBIG refused
CsvdCheckOffByOne(rows, cols) ==
  IF cols < 1 THEN ErrN1
  ELSE IF NBIG <= cols THEN ErrNBIG
  ELSE IF rows < 1 THEN ErrM1
  ELSE IF rows < cols THEN ErrMN
  ELSE "Ok"

\* the checks without the last one, M < N let through
CsvdCheckNoMN(rows, cols) ==
  IF cols < 1 THEN ErrN1
  ELSE IF NBIG < cols THEN ErrNBIG
  ELSE IF rows < 1 THEN ErrM1
  ELSE "Ok"

\* lines 110-123: the checks of N and M
CsvdCheck(rows, cols) ==
  IF cols < 1 THEN ErrN1
  ELSE IF NBIG < cols THEN ErrNBIG
  ELSE IF rows < 1 THEN ErrM1
  ELSE IF rows < cols THEN ErrMN
  ELSE "Ok"

\* the call with S cleared ahead of the checks
ValidateZeroing ==
  /\ pc = "call"
  /\ s' = Fill(Len(s), FZero)
  /\ IF CsvdCheck(m, n) # "Ok"
     THEN /\ pc' = "err"
          /\ ret' = CsvdCheck(m, n)
          /\ UNCHANGED << b, c, k, used >>
     ELSE /\ pc' = "col"
          /\ b' = Fill(NBIG, FZero)
          /\ c' = Put(Fill(NBIG, FZero), 1, FZero)
          /\ used' = used \cup { << "c", 1 >> }
          /\ k' = 0
          /\ ret' = ret
  /\ UNCHANGED << op, m, n, p, nu, nv, a, u, v, inv, t, eps, l, w, input,
                  layout, sin, sread, other, lib >>

\* the checks as a pinv would make them that cleared inverse_mat before it
\* handed the error of csvd on
ValidateClearing ==
  /\ pc = "call"
  /\ IF CsvdCheck(m, n) # "Ok"
     THEN /\ pc' = "err"
          /\ ret' = CsvdCheck(m, n)
          /\ inv' = Fill(Len(inv), CZero)
          /\ UNCHANGED << b, c, k, used >>
     ELSE /\ pc' = "col"
          /\ b' = Fill(NBIG, FZero)
          /\ c' = Put(Fill(NBIG, FZero), 1, FZero)
          /\ used' = used \cup { << "c", 1 >> }
          /\ k' = 0
          /\ ret' = ret
          /\ inv' = inv
  /\ UNCHANGED << op, m, n, p, nu, nv, a, s, u, v, t, eps, l, w, input,
                  layout, sin, sread, other, lib >>

\* lines 109-129: the checks, then the zeroed work arrays
Validate ==
  /\ pc = "call"
  /\ IF CsvdCheck(m, n) # "Ok"
     THEN /\ pc' = "err"
          /\ ret' = CsvdCheck(m, n)
          /\ UNCHANGED << b, c, k, used >>
     ELSE /\ pc' = "col"
          /\ b' = Fill(NBIG, FZero)
          /\ c' = Put(Fill(NBIG, FZero), 1, FZero)
          /\ used' = used \cup { << "c", 1 >> }
          /\ k' = 0
          /\ ret' = ret
  /\ UNCHANGED << op, m, n, p, nu, nv, a, s, u, v, inv, t, eps, l, w, input,
                  layout, sin, sread, other, lib >>

\* lines 138-141: the squared norm of A(K:M, K); the flag is false when an
\* index is outside A
RECURSIVE ColNormSq(_, _)
ColNormSq(i, z) ==
  IF i >= m THEN << TRUE, z >>
  ELSE IF ~InB(a, i * m + k) THEN << FALSE, z >>
  ELSE ColNormSq(i + 1,
         FAdd(FAdd(z, Powf2(At(a, i * m + k)[1])), Powf2(At(a, i * m + k)[2])))

\* lines 165-167
RECURSIVE ColDot(_, _, _, _)
ColDot(A, j, i, q) ==
  IF i >= m THEN q
  ELSE ColDot(A, j, i + 1,
              CAdd(q, CMul(CConj(At(A, i * m + k)), At(A, i * m + j))))

\* lines 170-172
RECURSIVE ColApply(_, _, _, _)
ColApply(A, j, i, q) ==
  IF i >= m THEN A
  ELSE ColApply(Put(A, i * m + j,
                    CSub(At(A, i * m + j), CMul(q, At(A, i * m + k)))),
                j, i + 1, q)

\* lines 162-173: the reflector applied to columns k1 .. n+p-1
RECURSIVE ColReflect(_, _, _, _)
ColReflect(A, j, z, ww) ==
  IF j >= n + p THEN A
  ELSE ColReflect(
         ColApply(A, j, k,
                  CDivF(ColDot(A, j, k, CZero), FMul(z, FAdd(z, ww)))),
         j + 1, z, ww)

\* lines 178-180
RECURSIVE ColPhase(_, _, _)
ColPhase(A, j, q) ==
  IF j >= n + p THEN A
  ELSE ColPhase(Put(A, k * m + j, CMul(q, At(A, k * m + j))), j + 1, q)

\* lines 176-180: the phase that makes the pivot of the reflected A real
ColPhased(A) ==
  ColPhase(A, k + 1,
           CDivF(CNeg(CConj(At(A, k * m + k))), cabs(At(A, k * m + k))))

\* lines 160-181: the columns right of k, when there are any
ColRest(A, z, ww) ==
  IF k # n - 1 + p THEN ColPhased(ColReflect(A, k + 1, z, ww)) ELSE A

\* lines 150-158: the pivot A(K, K), of modulus ww, takes the modulus z + ww
ColPivot(z, ww) ==
  ColRest(Put(a, k * m + k,
              CScale(IF FEq(ww, FZero) THEN COne
                     ELSE CDivF(At(a, k * m + k), ww),
                     FAdd(z, ww))),
          z, ww)

\* lines 148-181: A after the elimination of A(K+1:M, K); z is the norm
ColEliminate(z) == ColPivot(z, cabs(At(a, k * m + k)))

\* lines 143-186: B(K) and A for the squared norm zz[2] of the column; a
\* panic when zz[1] tells that the column is not all inside A
ColStore(zz) ==
  IF ~zz[1]
  THEN /\ pc' = "panic"
       /\ UNCHANGED << a, b, used >>
  ELSE /\ pc' = IF k = n - 1 THEN "tolerance" ELSE "row"
       /\ used' = used \cup { << "b", k >> }
       /\ IF FLt(tol, zz[2])
          THEN /\ b' = Put(b, k, sqrt(zz[2]))
               /\ a' = ColEliminate(sqrt(zz[2]))
          ELSE /\ b' = Put(b, k, FZero)
               /\ a' = a

\* lines 135-187: the elimination of column k
HouseholderCol ==
  /\ pc = "col"
  /\ ColStore(ColNormSq(k, FZero))
  /\ UNCHANGED << op, m, n, p, nu, nv, s, u, v, inv, c, t, eps, k, l, w, ret,
                  input, layout, sin, sread, other, lib >>

\* lines 190-193
RECURSIVE RowNormSq(_, _)
RowNormSq(j, z) ==
  IF j >= n THEN z
  ELSE RowNormSq(j + 1,
         FAdd(FAdd(z, Powf2(At(a, k * m + j)[1])), Powf2(At(a, k * m + j)[2])))

\* lines 213-215
RECURSIVE RowDot(_, _, _, _)
RowDot(A, i, j, q) ==
  IF j >= n THEN q
  ELSE RowDot(A, i, j + 1,
              CAdd(q, CMul(CConj(At(A, k * m + j)), At(A, i * m + j))))

\* lines 219-221
RECURSIVE RowApply(_, _, _, _)
RowApply(A, i, j, q) ==
  IF j >= n THEN A
  ELSE RowApply(Put(A, i * m + j,
                    CSub(At(A, i * m + j), CMul(q, At(A, k * m + j)))),
                i, j + 1, q)

\* lines 210-222: the reflector applied to rows k1 .. m-1
RECURSIVE RowReflect(_, _, _, _)
RowReflect(A, i, z, ww) ==
  IF i >= m THEN A
  ELSE RowReflect(
         RowApply(A, i, k + 1,
                  CDivF(RowDot(A, i, k + 1, CZero), FMul(z, FAdd(z, ww)))),
         i + 1, z, ww)

\* lines 226-228
RECURSIVE RowPhase(_, _, _)
RowPhase(A, i, q) ==
  IF i >= m THEN A
  ELSE RowPhase(Put(A, i * m + k + 1, CMul(At(A, i * m + k + 1), q)),
                i + 1, q)

\* lines 224-228: the phase that makes the pivot of the reflected A real
RowPhased(A) ==
  RowPhase(A, k + 1,
           CDivF(CNeg(CConj(At(A, k * m + k + 1))),
                 cabs(At(A, k * m + k + 1))))

\* lines 199-222: the pivot A(K, K+1), of modulus ww, takes the modulus
\* z + ww, and the rows below k are reflected
RowPivot(z, ww) ==
  RowPhased(
    RowReflect(Put(a, k * m + k + 1,
                   CScale(IF FEq(ww, FZero) THEN COne
                          ELSE CDivF(At(a, k * m + k + 1), ww),
                          FAdd(z, ww))),
               k + 1, z, ww))

\* lines 197-228: A after the elimination of A(K, K+2:N); z is the norm
RowEliminate(z) == RowPivot(z, cabs(At(a, k * m + k + 1)))

\* lines 194-229: C(K+1) and A for the squared norm z of the row
RowStore(z) ==
  IF FLt(tol, z)
  THEN /\ c' = Put(c, k + 1, sqrt(z))
       /\ a' = RowEliminate(sqrt(z))
  ELSE /\ c' = Put(c, k + 1, FZero)
       /\ a' = a

\* lines 190-230: the elimination of row k
HouseholderRow ==
  /\ pc = "row"
  /\ pc' = "col"
  /\ k' = k + 1
  /\ RowStore(RowNormSq(k + 1, FZero))
  /\ used' = used \cup { << "c", k + 1 >> }
  /\ UNCHANGED << op, m, n, p, nu, nv, s, u, v, inv, b, t, eps, l, w, ret,
                  input, layout, sin, sread, other, lib >>

\* lines 238-242: S and T take B and C, eps their largest sum
RECURSIVE TolLoop(_, _, _, _)
TolMax(i, S, T, e) ==
  TolLoop(i + 1, S, T, FMax(e, FAdd(At(S, i), At(T, i))))

TolLoop(i, S, T, e) ==
  IF i >= n THEN << S, T, e >>
  ELSE TolMax(i, Put(S, i, At(b, i)), Put(T, i, At(c, i)), e)

\* lines 243-244: S, T and eps as the loop r leaves them
TolStore(r) ==
  /\ s' = r[1]
  /\ t' = r[2]
  /\ eps' = FMul(r[3], eta)

\* lines 232-244: the tolerance for negligible elements
Tolerance ==
  /\ pc = "tolerance"
  /\ pc' = "init"
  /\ TolStore(TolLoop(0, s, Fill(NBIG, FZero), FZero))
  /\ used' = used \cup ({ "s", "t", "b", "c" } \X (0..(n - 1)))
  /\ UNCHANGED << op, m, n, p, nu, nv, a, u, v, inv, b, c, k, l, w, ret,
                  input, layout, sin, sread, other, lib >>

\* lines 249-251 and 258-260: column j of X, rows 0 .. rows-1, set to zero
RECURSIVE ZeroCol(_, _, _, _, _)
ZeroCol(X, j, i, rows, stride) ==
  IF i >= rows THEN X
  ELSE ZeroCol(Put(X, i * stride + j, CZero), j, i + 1, rows, stride)

\* lines 248-253 and 257-262: the first cnt columns of the identity
RECURSIVE InitCols(_, _, _, _, _)
InitCols(X, j, cnt, rows, stride) ==
  IF j >= cnt THEN X
  ELSE InitCols(Put(ZeroCol(X, j, 0, rows, stride), j * stride + j, COne),
                j + 1, cnt, rows, stride)

\* lines 246-263: the initialization of U and V
InitUV ==
  /\ pc = "init"
  /\ pc' = "scan"
  /\ k' = n - 1
  /\ u' = IF 0 < nu THEN InitCols(u, 0, nu, m, m) ELSE u
  /\ v' = IF 0 < nv THEN InitCols(v, 0, nv, n, n) ELSE v
  /\ UNCHANGED << op, m, n, p, nu, nv, a, s, inv, b, c, t, eps, l, w, ret,
                  input, layout, sin, sread, other, lib, used >>

\* ScanFrom with the test on S[l-1] made before the test on T[l]
RECURSIVE ScanFromSFirst(_)
ScanFromSFirst(j) ==
  IF j > 0 /\ FLe(abs(At(s, j - 1)), eps) THEN << "s", j >>
  ELSE IF FLe(abs(At(t, j)), eps) THEN << "t", j >>
  ELSE IF j = 0 THEN << "panic", j >>
  ELSE ScanFromSFirst(j - 1)

\* lines 298-310: the scan from k down for a split; "panic" when l - 1 is
\* taken at l = 0
RECURSIVE ScanFrom(_)
ScanFrom(j) ==
  IF FLe(abs(At(t, j)), eps) THEN << "t", j >>
  ELSE IF j = 0 THEN << "panic", j >>
  ELSE IF FLe(abs(At(s, j - 1)), eps) THEN << "s", j >>
  ELSE ScanFrom(j - 1)

\* lines 312-318: where the scan r leads
ScanStore(r) ==
  /\ pc' = IF r[1] = "panic" THEN "panic"
           ELSE IF r[1] = "t" THEN "test" ELSE "cancel"
  /\ l' = r[2]
  /\ used' = used \cup ({ "t" } \X (r[2]..k))
                   \cup ({ "s" } \X ((IF r[1] = "t" THEN r[2]
                                       ELSE r[2] - 1)..(k - 1)))

\* lines 297-318: the test for a split
Scan ==
  /\ pc = "scan"
  /\ ScanStore(ScanFrom(k))
  /\ UNCHANGED << op, m, n, p, nu, nv, a, s, u, v, inv, b, c, t, eps, k, w,
                  ret, input, layout, sin, sread, other, lib >>

\* lines 340-343, 401-404 and 417-420: the elements x and y of one row
\* rotated; only the real parts are read, the imaginary parts become zero
RotateRow(X, p1, p2, x, y, cs, sn) ==
  Put(Put(X, p1, << FAdd(FMul(x, cs), FMul(y, sn)), FZero >>),
      p2, << FSub(FMul(y, cs), FMul(x, sn)), FZero >>)

\* lines 339-344, 400-405 and 416-421: the rotation of columns c1 and c2 of
\* X, rows 0 .. n-1
RECURSIVE Rotate(_, _, _, _, _, _, _)
Rotate(X, j, stride, c1, c2, cs, sn) ==
  IF j >= n THEN X
  ELSE Rotate(RotateRow(X, j * stride + c1, j * stride + c2,
                        At(X, j * stride + c1)[1], At(X, j * stride + c2)[1],
                        cs, sn),
              j + 1, stride, c1, c2, cs, sn)

\* lines 323-355: the cancellation of E(L)
RECURSIVE CancelLoop(_, _, _, _, _, _)
\* lines 338-345
CancelRot(i, S, T, U, cs, sn) ==
  CancelLoop(i + 1, S, T,
             IF 0 < nu THEN Rotate(U, 0, m, l - 1, i, cs, sn) ELSE U,
             cs, sn)

\* lines 333-336
CancelW(i, S, T, U, f, h, ww) ==
  CancelRot(i, Put(S, i, ww), T, U, FDiv(h, ww), FDiv(FNeg(f), ww))

\* lines 327-333
CancelF(i, S, T, U, f) ==
  IF FLe(abs(f), eps) THEN << S, T, U, i, i - 1 >>
  ELSE CancelW(i, S, T, U, f, At(S, i),
               sqrt(FAdd(FMul(f, f), FMul(At(S, i), At(S, i)))))

\* lines 323-325
CancelLoop(i, S, T, U, cs, sn) ==
  IF i > k THEN << S, T, U, k, k >>
  ELSE CancelF(i, S, Put(T, i, FMul(cs, At(T, i))), U, FMul(sn, At(T, i)))

\* S, T and U as the loop r leaves them
CancelStore(r) ==
  /\ s' = r[1]
  /\ t' = r[2]
  /\ u' = r[3]
  /\ used' = used \cup ({ "t" } \X (l..r[4])) \cup ({ "s" } \X (l..r[5]))

\* lines 318-356
Cancel ==
  /\ pc = "cancel"
  /\ pc' = "test"
  /\ CancelStore(CancelLoop(l, s, t, u, FZero, FOne))
  /\ UNCHANGED << op, m, n, p, nu, nv, a, v, inv, b, c, eps, k, l, w, ret,
                  input, layout, sin, sread, other, lib >>

\* lines 358-365: the test for convergence
TestConvergence ==
  /\ pc = "test"
  /\ w' = At(s, k)
  /\ pc' = IF l = k THEN "converged" ELSE "qr"
  /\ used' = used \cup { << "s", k >> }
  /\ UNCHANGED << op, m, n, p, nu, nv, a, s, u, v, inv, b, c, t, eps, k, l,
                  ret, input, layout, sin, sread, other, lib >>

\* line 377
ShiftX(x, y, h, f, g) ==
  FDiv(FAdd(FMul(FSub(x, w), FAdd(x, w)),
            FMul(FSub(FDiv(y, FAdd(f, g)), h), h)),
       x)

\* lines 374-376
ShiftG(x, y, h, f, g) ==
  ShiftX(x, y, h, f, IF FLt(f, FZero) THEN FNeg(g) ELSE g)

\* line 373
ShiftF(x, y, h, f) == ShiftG(x, y, h, f, sqrt(FAdd(FMul(f, f), FOne)))

\* line 372
ShiftOf(x, y, g, h) ==
  ShiftF(x, y, h,
         FDiv(FAdd(FMul(FSub(y, w), FAdd(y, w)),
                   FMul(FSub(g, h), FAdd(g, h))),
              FMul(FMul(FromInt(2), h), y)))

\* lines 367-377: the origin shift
Shift == ShiftOf(At(s, l), At(s, k - 1), At(t, k - 1), At(t, k))

\* lines 379-432: the QR step; the result is << S, T, U, V, f, x >>
RECURSIVE QRLoop(_, _, _, _, _, _, _, _, _)
\* lines 412-422
QRRightRot(i, S, T, U, V, g, y, cs, sn) ==
  QRLoop(i + 1, S, T,
         IF 0 < nu THEN Rotate(U, 0, m, i - 1, i, cs, sn) ELSE U,
         V,
         FAdd(FMul(cs, g), FMul(sn, y)), FSub(FMul(cs, y), FMul(sn, g)),
         cs, sn)

\* lines 409-411
QRRightW(i, S, T, U, V, f, g, h, y, ww) ==
  QRRightRot(i, Put(S, i - 1, ww), T, U, V, g, y, FDiv(f, ww), FDiv(h, ww))

\* line 408
QRRight(i, S, T, U, V, f, g, h, y) ==
  QRRightW(i, S, T, U, V, f, g, h, y, sqrt(FAdd(FMul(h, h), FMul(f, f))))

\* lines 394-406
QRLeftRot(i, S, T, U, V, x, y, g, cs, sn) ==
  QRRight(i, S, T, U,
          IF 0 < nv THEN Rotate(V, 0, n, i - 1, i, cs, sn) ELSE V,
          FAdd(FMul(x, cs), FMul(g, sn)), FSub(FMul(g, cs), FMul(x, sn)),
          FMul(y, sn), FMul(y, cs))

\* lines 391-393
QRLeftW(i, S, T, U, V, f, x, y, h, g, ww) ==
  QRLeftRot(i, S, Put(T, i - 1, ww), U, V, x, y, g,
            FDiv(f, ww), FDiv(h, ww))

\* line 390
QRLeft(i, S, T, U, V, f, x, y, h, g) ==
  QRLeftW(i, S, T, U, V, f, x, y, h, g,
          sqrt(FAdd(FMul(h, h), FMul(f, f))))

\* lines 384-389
QRLoop(i, S, T, U, V, f, x, cs, sn) ==
  IF i > k THEN << S, T, U, V, f, x >>
  ELSE QRLeft(i, S, T, U, V, f, x, At(S, i),
              FMul(sn, At(T, i)), FMul(cs, At(T, i)))

\* QRStore without the assignment t[l] = 0.0 of line 434
QRStoreKeepingT(r) ==
  /\ s' = Put(r[1], k, r[6])
  /\ t' = Put(r[2], k, r[5])
  /\ u' = r[3]
  /\ v' = r[4]

\* lines 434-436: S, T, U and V as the sweep r leaves them
QRStore(r) ==
  /\ s' = Put(r[1], k, r[6])
  /\ t' = Put(Put(r[2], l, FZero), k, r[5])
  /\ u' = r[3]
  /\ v' = r[4]

\* lines 367-437: the origin shift and one QR sweep
QRSweep ==
  /\ pc = "qr"
  /\ pc' = "scan"
  /\ QRStore(QRLoop(l + 1, s, t, u, v, Shift, At(s, l), FOne, FOne))
  /\ used' = used \cup ({ "s", "t" } \X (l..k))
  /\ UNCHANGED << op, m, n, p, nu, nv, a, inv, b, c, eps, k, l, w, ret, input,
                  layout, sin, sread, other, lib >>

\* lines 447-449
RECURSIVE NegateCol(_, _)
NegateCol(V, j) ==
  IF j >= n THEN V
  ELSE NegateCol(Put(V, j * n + k, CNeg(At(V, j * n + k))), j + 1)

\* lines 440-452: index k has converged; then the next index, or the sort
Converged ==
  /\ pc = "converged"
  /\ IF FLt(w, FZero)
     THEN /\ s' = Put(s, k, FNeg(w))
          /\ v' = IF 0 < nv THEN NegateCol(v, 0) ELSE v
          /\ used' = used \cup { << "s", k >> }
     ELSE UNCHANGED << s, v, used >>
  /\ IF k = 0
     THEN pc' = "sort" /\ k' = 0
     ELSE pc' = "scan" /\ k' = k - 1
  /\ UNCHANGED << op, m, n, p, nu, nv, a, u, inv, b, c, t, eps, l, w, ret,
                  input, layout, sin, sread, other, lib >>

\* lines 458-466: << g, j >>, the largest of S(K:N) and its index
RECURSIVE SortMax(_, _, _)
SortMax(i, g, j) ==
  IF i >= n THEN << g, j >>
  ELSE IF FLt(g, At(s, i)) THEN SortMax(i + 1, At(s, i), i)
  ELSE SortMax(i + 1, g, j)

\* SwapCols with the interchange left out in row 0
RECURSIVE SwapColsBelow(_, _, _, _)
SwapColsBelow(X, i, stride, j) ==
  IF i >= n THEN X
  ELSE IF i = 0 THEN SwapColsBelow(X, i + 1, stride, j)
  ELSE SwapColsBelow(Put(Put(X, i * stride + j, At(X, i * stride + k)),
                         i * stride + k, At(X, i * stride + j)),
                     i + 1, stride, j)

\* lines 474-478 and 483-487: columns j and k of X interchanged, rows 0 .. n-1
RECURSIVE SwapCols(_, _, _, _)
SwapCols(X, i, stride, j) ==
  IF i >= n THEN X
  ELSE SwapCols(Put(Put(X, i * stride + j, At(X, i * stride + k)),
                    i * stride + k, At(X, i * stride + j)),
                i + 1, stride, j)

\* lines 468-490: S, U and V with the largest element r[1] of S(K:N), found
\* at index r[2], brought to index k
SortStore(r) ==
  IF r[2] # k
  THEN /\ s' = Put(Put(s, r[2], At(s, k)), k, r[1])
       /\ v' = IF 0 < nv THEN SwapCols(v, 0, n, r[2]) ELSE v
       /\ u' = IF 0 < nu THEN SwapCols(u, 0, m, r[2]) ELSE u
  ELSE UNCHANGED << s, u, v >>

\* lines 457-499: one pass of the sort
SortStep ==
  /\ pc = "sort"
  /\ SortStore(SortMax(k, FNeg(FOne), k))
  /\ IF k = n - 1
     THEN pc' = "backu" /\ k' = k
     ELSE pc' = "sort" /\ k' = k + 1
  /\ used' = used \cup ({ "s" } \X (k..(n - 1)))
  /\ UNCHANGED << op, m, n, p, nu, nv, a, inv, b, c, t, eps, l, w, ret, input,
                  layout, sin, sread, other, lib >>

\* lines 509-511 and 546-548: row r of X, columns 0 .. cnt-1, times q
RECURSIVE ScaleRow(_, _, _, _, _, _)
ScaleRow(X, j, cnt, r, stride, q) ==
  IF j >= cnt THEN X
  ELSE ScaleRow(Put(X, r * stride + j, CMul(q, At(X, r * stride + j))),
                j + 1, cnt, r, stride, q)

\* lines 517-519
RECURSIVE BackUDot(_, _, _, _)
BackUDot(U, j, i, q) ==
  IF i >= m THEN q
  ELSE BackUDot(U, j, i + 1,
                CAdd(q, CMul(CConj(At(a, i * m + k)), At(U, i * m + j))))

\* lines 523-525
RECURSIVE BackUApply(_, _, _, _)
BackUApply(U, j, i, q) ==
  IF i >= m THEN U
  ELSE BackUApply(Put(U, i * m + j,
                      CSub(At(U, i * m + j), CMul(q, At(a, i * m + k)))),
                  j, i + 1, q)

\* lines 513-527
RECURSIVE BackUCols(_, _)
BackUCols(U, j) ==
  IF j >= nu THEN U
  ELSE BackUCols(
         BackUApply(U, j, k,
                    CDivF(BackUDot(U, j, k, CZero),
                          FMul(cabs(At(a, k * m + k)), At(b, k)))),
         j + 1)

\* lines 501-533: the back transformation of U, index k
BackU ==
  /\ pc = "backu"
  /\ IF 0 < nu
     THEN /\ u' = IF ~FEq(At(b, k), FZero)
                  THEN BackUCols(
                         ScaleRow(u, 0, nu, k, m,
                                  CDivF(CNeg(At(a, k * m + k)),
                                        cabs(At(a, k * m + k)))),
                         0)
                  ELSE u
          /\ IF k = 0
             THEN pc' = "backv" /\ k' = n - 2
             ELSE pc' = "backu" /\ k' = k - 1
     ELSE /\ u' = u
          /\ pc' = "backv"
          /\ k' = n - 2
  /\ used' = IF 0 < nu THEN used \cup { << "b", k >> } ELSE used
  /\ UNCHANGED << op, m, n, p, nu, nv, a, s, v, inv, b, c, t, eps, l, w, ret,
                  input, layout, sin, sread, other, lib >>

\* lines 553-555
RECURSIVE BackVDot(_, _, _, _)
BackVDot(V, j, i, q) ==
  IF i >= n THEN q
  ELSE BackVDot(V, j, i + 1,
                CAdd(q, CMul(At(a, k * m + i), At(V, i * n + j))))

\* lines 558-560
RECURSIVE BackVApply(_, _, _, _)
BackVApply(V, j, i, q) ==
  IF i >= n THEN V
  ELSE BackVApply(Put(V, i * n + j,
                      CSub(At(V, i * n + j),
                           CMul(q, CConj(At(a, k * m + i))))),
                  j, i + 1, q)

\* lines 550-561
RECURSIVE BackVCols(_, _)
BackVCols(V, j) ==
  IF j >= nv THEN V
  ELSE BackVCols(
         BackVApply(V, j, k + 1,
                    CDivF(BackVDot(V, j, k + 1, CZero),
                          FMul(cabs(At(a, k * m + k + 1)), At(c, k + 1)))),
         j + 1)

\* the value csvd returns with, line 567, and where its caller goes on
Return ==
  /\ pc' = IF op = "pinv" THEN "recip" ELSE "done"
  /\ ret' = IF op = "pinv" THEN ret ELSE "Ok"

\* lines 535-567: the back transformation of V, index k, then the return
BackV ==
  /\ pc = "backv"
  /\ IF 0 < nv /\ 1 < n
     THEN /\ v' = IF ~FEq(At(c, k + 1), FZero)
                  THEN BackVCols(
                         ScaleRow(v, 0, nv, k + 1, n,
                                  CDivF(CNeg(CConj(At(a, k * m + k + 1))),
                                        cabs(At(a, k * m + k + 1)))),
                         0)
                  ELSE v
          /\ IF k = 0
             THEN Return /\ k' = k
             ELSE pc' = "backv" /\ k' = k - 1 /\ ret' = ret
     ELSE /\ v' = v
          /\ k' = k
          /\ Return
  /\ used' = IF 0 < nv /\ 1 < n THEN used \cup { << "c", k + 1 >> }
             ELSE used
  /\ UNCHANGED << op, m, n, p, nu, nv, a, s, u, inv, b, c, t, eps, l, w,
                  input, layout, sin, sread, other, lib >>

-----------------------------------------------------------------------------
(* the pseudo-inverse, src/src/lib.rs *)

\* the reciprocal of every element of S that is not zero, whatever its size
RECURSIVE ReciprocalsNonZero(_, _)
ReciprocalsNonZero(S, i) ==
  IF i >= n THEN S
  ELSE ReciprocalsNonZero(Put(S, i, IF ~IsZero(At(S, i))
                                    THEN FDiv(FOne, At(S, i))
                                    ELSE FZero),
                          i + 1)

\* lines 179-186: the reciprocal of every element of S above the cut-off
RECURSIVE Reciprocals(_, _)
Reciprocals(S, i) ==
  IF i >= n THEN S
  ELSE Reciprocals(Put(S, i, IF FGt(At(S, i), PinvEps)
                             THEN FDiv(FOne, At(S, i))
                             ELSE FZero),
                   i + 1)

\* lines 173-186
Reciprocal ==
  /\ pc = "recip"
  /\ pc' = "extend"
  /\ s' = Reciprocals(s, 0)
  /\ UNCHANGED << op, m, n, p, nu, nv, a, u, v, inv, b, c, t, eps, k, l, w,
                  ret, input, layout, sin, sread, other, lib, used >>

\* S extended one element short of m
RECURSIVE PushesOneLess(_, _)
PushesOneLess(S, cnt) ==
  IF cnt + 1 < m THEN PushesOneLess(Append(S, FZero), cnt + 1) ELSE S

\* lines 189-192: S extended with zeros while n_ < m
RECURSIVE Pushes(_, _)
Pushes(S, cnt) ==
  IF cnt < m THEN Pushes(Append(S, FZero), cnt + 1) ELSE S

\* lines 188-192
Extend ==
  /\ pc = "extend"
  /\ pc' = "product"
  /\ s' = Pushes(s, n)
  /\ UNCHANGED << op, m, n, p, nu, nv, a, u, v, inv, b, c, t, eps, k, l, w,
                  ret, input, layout, sin, sread, other, lib, used >>

\* lines 198-200: the sum for one element of INV, kept at position pos; the
\* result is << INV, R >>, R the indices of S read so far
RECURSIVE ProductSum(_, _, _, _, _, _)
ProductSum(INV, R, pos, i, j, x) ==
  IF x >= n THEN << INV, R >>
  ELSE ProductSum(
         Put(INV, pos,
             CAdd(At(INV, pos),
                  CMul(CScale(At(v, i * n + x), At(s, x)),
                       CConj(At(u, j * m + x))))),
         R \cup {x}, pos, i, j, x + 1)

\* lines 196-199: where the element of row i and column j of INV is kept
InvPos(i, j) == i * n + j

\* lines 195-201
RECURSIVE ProductRow(_, _, _)
ProductRow(IR, i, j) ==
  IF j >= m THEN IR
  ELSE ProductRow(
         ProductSum(Put(IR[1], InvPos(i, j), CZero), IR[2], InvPos(i, j),
                    i, j, 0),
         i, j + 1)

\* lines 194-202
RECURSIVE ProductRows(_, _)
ProductRows(IR, i) ==
  IF i >= n THEN IR
  ELSE ProductRows(ProductRow(IR, i, 0), i + 1)

\* INV and the indices of S read, as the loops r leave them
ProductStore(r) ==
  /\ inv' = r[1]
  /\ sread' = r[2]

\* lines 194-203: the product V S+ U*, then the return of find_pinv_from_svd
\* (and of pinv, lib.rs line 164)
Product ==
  /\ pc = "product"
  /\ pc' = "done"
  /\ ProductStore(ProductRows(<< inv, {} >>, 0))
  /\ ret' = "Ok"
  /\ UNCHANGED << op, m, n, p, nu, nv, a, s, u, v, b, c, t, eps, k, l, w,
                  input, layout, sin, other, lib, used >>

-----------------------------------------------------------------------------
(* the calls *)

\* what the caller's buffers hold before the call
JunkS == FromInt(7)
JunkC == Cx(5, -3)

\* a call csvd(a, m, n, n, m, p, nu, nv, s, u, v) about to start, on the
\* buffers of a brows x bcols matrix: A with its aux further columns, S of
\* bcols elements, U of brows*brows and V of bcols*bcols
CallCsvd(rows, cols, aux, ucols, vcols, brows, bcols, inp, lay) ==
  /\ pc = "call"
  /\ op = "csvd"
  /\ m = rows /\ n = cols /\ p = aux /\ nu = ucols /\ nv = vcols
  /\ input = inp /\ layout = lay
  /\ a = InputA(inp, brows, bcols + aux, lay)
  /\ s = Fill(bcols, JunkS) /\ sin = s
  /\ u = Fill(brows * brows, JunkC)
  /\ v = Fill(bcols * bcols, JunkC)
  /\ inv = << >>
  /\ b = << >> /\ c = << >> /\ t = << >>
  /\ eps = FZero /\ k = 0 /\ l = 0 /\ w = FZero
  /\ ret = "none"
  /\ sread = {}
  /\ lib = << >>
  /\ used = {}

\* a call pinv(input_mat, inverse_mat, m, n), lib.rs lines 137-159, at its
\* call of csvd: S, U and V are new and zero
CallPinv(rows, cols, inp, lay) ==
  /\ pc = "call"
  /\ op = "pinv"
  /\ m = rows /\ n = cols /\ p = 0 /\ nu = rows /\ nv = cols
  /\ input = inp /\ layout = lay
  /\ a = InputA(inp, rows, cols, lay)
  /\ s = Fill(cols, FZero) /\ sin = s
  /\ u = Fill(rows * rows, CZero)
  /\ v = Fill(cols * cols, CZero)
  /\ inv = Fill(cols * rows, JunkC)
  /\ b = << >> /\ c = << >> /\ t = << >>
  /\ eps = FZero /\ k = 0 /\ l = 0 /\ w = FZero
  /\ ret = "none"
  /\ sread = {}
  /\ lib = << >>
  /\ used = {}

-----------------------------------------------------------------------------
(* find_pinv_from_svd called by itself, src/src/lib.rs line 171 *)

\* The values a caller may pass in S: zero, the cut-off and its neighbours,
\* ordinary values, and the values a failed decomposition leaves behind.
SCatalogue ==
  << FZero, PinvEps, PinvEps + 1, FOne, FNeg(FZero), FNaN, FInf, FromInt(3),
     FNeg(FOne), PinvEps - 1, FromInt(10000), Lit(1, 2) >>

\* S of len elements, read round the catalogue from element number start
SVec(start, len) ==
  [ i \in 1..len |->
      SCatalogue[((start + i - 1) % Len(SCatalogue)) + 1] ]

\* a call find_pinv_from_svd(s, u, v, m, n, inv) about to start, U of m*m
\* and V of n*n elements, INV of n*m
CallFind(rows, cols, start, inp) ==
  /\ pc = "recip"
  /\ op = "find_pinv"
  /\ m = rows /\ n = cols /\ p = 0 /\ nu = rows /\ nv = cols
  /\ input = inp /\ layout = "tight"
  /\ a = << >>
  /\ s = SVec(start, cols) /\ sin = s
  /\ u = InputA(inp, rows, rows, "tight")
  /\ v = InputA(inp, cols, cols, "tight")
  /\ inv = Fill(cols * rows, JunkC)
  /\ b = << >> /\ c = << >> /\ t = << >>
  /\ eps = FZero /\ k = 0 /\ l = 0 /\ w = FZero
  /\ ret = "none"
  /\ sread = {}
  /\ lib = << >>
  /\ used = {}

-----------------------------------------------------------------------------
(* the checks of the results, src/src/test.rs *)

\* line 108: the tolerance of check_matrix_equality
TestEps == Lit(1, 10000)

\* line 112: the squared distance of two complex numbers
SqDist(x, y) ==
  FAdd(Powf2(FSub(x[1], y[1])), Powf2(FSub(x[2], y[2])))

\* lines 64 and 127: the copy of the vector A that check_pinv and check_svd
\* keep
a_orig == InputA(input, m, n + p, layout)

\* lines 84 and 112: the element of row i and column j of the matrix the
\* caller passed, as the code addresses it, a_orig[i*m + j]
Orig(i, j) == At(a_orig, i * m + j)

\* lines 50-58: the element (i, j) of U diag(S) V*, summed over the first
\* min(m, n) singular triplets
RECURSIVE find_orig_matrix_from_svd(_, _, _, _)
find_orig_matrix_from_svd(i, j, x, acc) ==
  IF x >= (IF m < n THEN m ELSE n) THEN acc
  ELSE find_orig_matrix_from_svd(i, j, x + 1,
         CAdd(acc, CMul(CScale(At(u, i * m + x), At(s, x)),
                        CConj(At(v, j * n + x)))))

\* lines 79-86: I[i*m + j], the sum over k of a_orig[i*m + k] * inv[k*n + j]
RECURSIVE AInv(_, _, _, _)
AInv(i, j, x, acc) ==
  IF x >= n THEN acc
  ELSE AInv(i, j, x + 1,
            CAdd(acc, CMul(At(a_orig, i * m + x), At(inv, InvPos(x, j)))))

\* lines 88-97: a[i*m + j] after the second product, the sum over k of
\* I[i*m + k] * a_orig[k*n + j]; the second factor is read with the stride n
RECURSIVE check_pinv(_, _, _, _)
check_pinv(i, j, x, acc) ==
  IF x >= m THEN acc
  ELSE check_pinv(i, j, x + 1,
                  CAdd(acc, CMul(AInv(i, x, 0, CZero),
                                 At(a_orig, x * n + j))))

-----------------------------------------------------------------------------
(* the specifications *)

\* the bounds: dimensions 0 .. MaxDim and matrices 0 .. MaxInput of the
\* catalogue for csvd and pinv, up to MaxRows rows for find_pinv_from_svd,
\* up to MaxLen elements for aligned_alloc
MaxDim == 2
MaxInput == 7
MaxRows == 3
MaxLen == 9

\* csvd called for all of U and V
Init ==
  \E rows \in 0..MaxDim, cols \in 0..MaxDim, inp \in 0..MaxInput,
     lay \in { "tight", "strided" } :
    /\ CallCsvd(rows, cols, 0, rows, cols, rows, cols, inp, lay)
    /\ other = << >>

Next ==
  \/ Validate
  \/ HouseholderCol
  \/ HouseholderRow
  \/ Tolerance
  \/ InitUV
  \/ Scan
  \/ Cancel
  \/ TestConvergence
  \/ QRSweep
  \/ Converged
  \/ SortStep
  \/ BackU
  \/ BackV

Spec == Init /\ [][Next]_vars

\* csvd called with dimensions up to and beyond NBIG on the buffers of a
\* matrix of up to MaxDim rows and columns, followed as far as the checks of
\* the dimensions, which look at M and N alone
InitDims ==
  \E rows, cols \in (0..MaxDim) \cup { NBIG - 1, NBIG, NBIG + 1 },
     brows, bcols \in 1..MaxDim, lay \in { "tight", "strided" } :
    /\ CallCsvd(rows, cols, 0, rows, cols, brows, bcols, 0, lay)
    /\ other = << >>

SpecDims == InitDims /\ [][Validate]_vars

\* csvd called on an M x N matrix with P further columns, for every number
\* NU in 0..M of columns of U and NV in 0..N of columns of V the caller may
\* ask for
InitArgs ==
  \E rows \in 1..MaxRows, cols \in 1..MaxDim, aux \in 0..2,
     inp \in 0..MaxInput, lay \in { "tight", "strided" } :
    \E ucols \in 0..rows, vcols \in 0..cols :
      /\ CallCsvd(rows, cols, aux, ucols, vcols, rows, cols, inp, lay)
      /\ other = << >>

\* csvd is straight-line code and loops in one thread, and none of its steps
\* waits for anything: a call that has not returned, failed or panicked takes
\* its next step.  Every step of Next moves the position pc or the index k,
\* and Next is enabled exactly while the call runs, so the fairness of Next is
\* stated on these two.
SpecArgs ==
  /\ InitArgs
  /\ [][Next]_vars
  /\ WF_<< pc, k >>(/\ pc \notin { "done", "err", "panic" }
                     /\ pc' \in { "col", "row", "tolerance", "init", "scan",
                                  "cancel", "test", "qr", "converged", "sort",
                                  "backu", "backv", "done", "err", "panic" }
                     /\ k' \in 0..NBIG)

-----------------------------------------------------------------------------
(* two calls of csvd on buffers of their own, src/src/csvd.rs lines 103-568 *)

\* all that a call of csvd owns: its arguments, the caller's buffers it was
\* handed, and its locals, among them the work arrays B, C and T of lines
\* 126-129
frame ==
  << pc, op, m, n, p, nu, nv, a, s, u, v, inv, b, c, t, eps, k, l, w,
     ret, input, layout, sin, sread, used >>

\* the switch to a second call with only the caller's buffers and the
\* position kept apart, and B, C and T shared by the two calls
SwitchSharing ==
  /\ other # << >>
  /\ other' = frame \o << other[26] >>
  /\ pc' = other[1] /\ op' = other[2]
  /\ m' = other[3] /\ n' = other[4] /\ p' = other[5]
  /\ nu' = other[6] /\ nv' = other[7]
  /\ a' = other[8] /\ s' = other[9] /\ u' = other[10] /\ v' = other[11]
  /\ inv' = other[12]
  /\ eps' = other[16] /\ k' = other[17] /\ l' = other[18] /\ w' = other[19]
  /\ ret' = other[20] /\ input' = other[21] /\ layout' = other[22]
  /\ sin' = other[23] /\ sread' = other[24] /\ used' = other[25]
  /\ UNCHANGED << b, c, t, lib >>

\* between two steps of the running call the other call takes over: the
\* running call is put aside as it stands and the other one goes on where it
\* was
Switch ==
  /\ other # << >>
  /\ other' = frame \o << other[26] >>
  /\ pc' = other[1] /\ op' = other[2]
  /\ m' = other[3] /\ n' = other[4] /\ p' = other[5]
  /\ nu' = other[6] /\ nv' = other[7]
  /\ a' = other[8] /\ s' = other[9] /\ u' = other[10] /\ v' = other[11]
  /\ inv' = other[12]
  /\ b' = other[13] /\ c' = other[14] /\ t' = other[15]
  /\ eps' = other[16] /\ k' = other[17] /\ l' = other[18] /\ w' = other[19]
  /\ ret' = other[20] /\ input' = other[21] /\ layout' = other[22]
  /\ sin' = other[23] /\ sread' = other[24] /\ used' = other[25]
  /\ lib' = lib

\* the caller, once its call has run alone to its end, notes what the call
\* left and makes the same call again on buffers with the contents of the
\* first time, together with a second call, of other arguments or the same,
\* on buffers of its own.  The memory of the locals of the first call is as
\* that call left it; the second call has memory of its own.
Again ==
  /\ op = "csvd" /\ other = << >>
  /\ pc \in { "done", "err", "panic" }
  /\ \E y \in { << m, input >>, << m, (input + 3) % (MaxInput + 1) >>,
                 << MaxDim + 1 - m, input >> } :
       other' = << "call", "csvd", y[1], n, 0, y[1], n,
                   InputA(y[2], y[1], n, layout), Fill(n, JunkS),
                   Fill(y[1] * y[1], JunkC), Fill(n * n, JunkC), << >>,
                   << >>, << >>, << >>, FZero, 0, 0, FZero,
                   "none", y[2], layout, Fill(n, JunkS), {}, {},
                   << << m, n, p, nu, nv, input, layout >>,
                      << pc, ret, a, s, u, v >> >> >>
  /\ pc' = "call" /\ ret' = "none"
  /\ a' = InputA(input, m, n + p, layout)
  /\ s' = sin
  /\ u' = Fill(m * m, JunkC)
  /\ v' = Fill(n * n, JunkC)
  /\ sread' = {} /\ used' = {}
  /\ UNCHANGED << op, m, n, p, nu, nv, inv, b, c, t, eps, k, l, w, input,
                  layout, sin, lib >>

\* one call about to start, alone
InitTwo ==
  \E rows \in 1..MaxDim, cols \in 1..MaxDim, inp \in 0..MaxInput,
     lay \in { "tight", "strided" } :
    /\ CallCsvd(rows, cols, 0, rows, cols, rows, cols, inp, lay)
    /\ other = << >>

\* a call alone, then the same call and a second one with their steps in
\* any order
SpecTwo == InitTwo /\ [][Next \/ Switch \/ Again]_vars

-----------------------------------------------------------------------------
\* pinv
InitPinv ==
  \E rows \in 0..MaxDim, cols \in 0..MaxDim, inp \in 0..MaxInput,
     lay \in { "tight", "strided" } :
    /\ CallPinv(rows, cols, inp, lay)
    /\ other = << >>

NextPinv ==
  \/ Next
  \/ Reciprocal
  \/ Extend
  \/ Product

SpecPinv == InitPinv /\ [][NextPinv]_vars

\* find_pinv_from_svd for an M x N decomposition, N <= M
InitFind ==
  \E rows \in 1..MaxRows, inp \in 0..MaxInput :
    \E cols \in 1..rows, start \in 0..(Len(SCatalogue) - 1) :
      /\ CallFind(rows, cols, start, inp)
      /\ other = << >>

NextFind ==
  \/ Reciprocal
  \/ Extend
  \/ Product

SpecFind == InitFind /\ [][NextFind]_vars

-----------------------------------------------------------------------------
(* matrix_mult and aligned_alloc, src/src/lib.rs *)

\* lines 253-259: the three loops, flattened: step number idx is the element
\* (i, j) of C and the term k of its sum, and adds that term to what the
\* element holds
RECURSIVE MultLoop(_, _, _)
MultLoop(L, C, idx) ==
  IF idx >= L.a_rows * L.b_cols * L.a_cols THEN C
  ELSE MultLoop(L,
         Put(C, (idx \div (L.b_cols * L.a_cols)) * L.b_cols
                  + ((idx \div L.a_cols) % L.b_cols),
             CAdd(At(C, (idx \div (L.b_cols * L.a_cols)) * L.b_cols
                          + ((idx \div L.a_cols) % L.b_cols)),
                  CMul(At(L.mat_a, (idx \div (L.b_cols * L.a_cols)) * L.a_cols
                                     + (idx % L.a_cols)),
                       At(L.mat_b, (idx % L.a_cols) * L.b_cols
                                     + ((idx \div L.a_cols) % L.b_cols))))),
         idx + 1)

\* matrix_mult as it would be with the test of the dimensions made for
\* a_cols > b_rows alone
matrix_mult_unchecked ==
  /\ pc = "call" /\ op = "matrix_mult"
  /\ IF \/ Len(lib.mat_a) < lib.a_rows * lib.a_cols
        \/ Len(lib.mat_b) < lib.b_rows * lib.b_cols
        \/ Len(lib.mat_c) < lib.a_rows * lib.b_cols
     THEN pc' = "panic" /\ ret' = ret /\ lib' = lib
     ELSE IF lib.a_cols > lib.b_rows
     THEN /\ pc' = "err"
          /\ ret' = "Matrix dimension not compatible!"
          /\ lib' = lib
     ELSE /\ pc' = "done"
          /\ ret' = "Ok"
          /\ lib' = [lib EXCEPT !.mat_c = MultLoop(lib, lib.mat_c, 0)]
  /\ UNCHANGED << op, m, n, p, nu, nv, a, s, u, v, inv, b, c, t, eps, k, l, w,
                  input, layout, sin, sread, other, used >>

\* lines 205-260: matrix_mult; the three slices of lines 206-208 are taken
\* first and panic when a buffer is shorter than its dimensions say
matrix_mult ==
  /\ pc = "call" /\ op = "matrix_mult"
  /\ IF \/ Len(lib.mat_a) < lib.a_rows * lib.a_cols
        \/ Len(lib.mat_b) < lib.b_rows * lib.b_cols
        \/ Len(lib.mat_c) < lib.a_rows * lib.b_cols
     THEN pc' = "panic" /\ ret' = ret /\ lib' = lib
     ELSE IF lib.a_cols # lib.b_rows
     THEN /\ pc' = "err"
          /\ ret' = "Matrix dimension not compatible!"
          /\ lib' = lib
     ELSE /\ pc' = "done"
          /\ ret' = "Ok"
          /\ lib' = [lib EXCEPT !.mat_c = MultLoop(lib, lib.mat_c, 0)]
  /\ UNCHANGED << op, m, n, p, nu, nv, a, s, u, v, inv, b, c, t, eps, k, l, w,
                  input, layout, sin, sread, other, used >>

\* lines 34-100: aligned_alloc and the aligned_alloc_16, _32 and _64 it
\* calls.  The buffer is allocated for len / (alignment / 8) elements of
\* alignment bytes each, the division rounding down, and handed to the
\* vector as len elements of 8 bytes, which are then set to zero.  When the
\* allocation is shorter than that the writes go beyond it, which is
\* undefined: the call may come back with the vector as if all were well, or
\* the process may be stopped.
aligned_alloc ==
  /\ pc = "call" /\ op = "aligned_alloc"
  /\ IF lib.alignment \in { 16, 32, 64 }
     THEN \/ /\ pc' = "done"
             /\ ret' = "Ok"
             /\ lib' = [lib EXCEPT
                  !.bytes = (lib.len \div (lib.alignment \div 8))
                              * lib.alignment,
                  !.vec = Fill(lib.len, CZero)]
          \/ /\ (lib.len \div (lib.alignment \div 8)) * lib.alignment
                  < 8 * lib.len
             /\ pc' = "panic"
             /\ ret' = ret
             /\ lib' = [lib EXCEPT
                  !.bytes = (lib.len \div (lib.alignment \div 8))
                              * lib.alignment]
     ELSE /\ pc' = "err"
          /\ ret' = "Invalid alignment input"
          /\ lib' = lib
  /\ UNCHANGED << op, m, n, p, nu, nv, a, s, u, v, inv, b, c, t, eps, k, l, w,
                  input, layout, sin, sread, other, used >>

\* a call of matrix_mult on two matrices of the catalogue and a mat_c that
\* holds zeros or what an earlier use left in it, the three buffers as long
\* as the dimensions say or mat_c one element short; or a call of
\* aligned_alloc for len elements with an alignment that is supported or
\* not, on a vector that is empty or not
InitLib ==
  /\ pc = "call" /\ ret = "none"
  /\ m = 0 /\ n = 0 /\ p = 0 /\ nu = 0 /\ nv = 0
  /\ a = << >> /\ s = << >> /\ u = << >> /\ v = << >> /\ inv = << >>
  /\ b = << >> /\ c = << >> /\ t = << >>
  /\ eps = FZero /\ k = 0 /\ l = 0 /\ w = FZero
  /\ input = 0 /\ layout = "tight" /\ sin = << >> /\ sread = {}
  /\ other = << >> /\ used = {}
  /\ \/ /\ op = "matrix_mult"
        /\ \E ar \in 1..MaxDim, ac \in 1..MaxDim, br \in 1..MaxDim,
              bc \in 1..MaxDim, ina \in 0..MaxInput, inb \in 0..MaxDim,
              old \in { CZero, JunkC }, short \in 0..1 :
             lib = [ mat_a |-> InputA(ina, ar, ac, "tight"),
                     a_rows |-> ar, a_cols |-> ac,
                     mat_b |-> InputA(inb, br, bc, "tight"),
                     b_rows |-> br, b_cols |-> bc,
                     mat_c |-> Fill(ar * bc - short, old) ]
     \/ /\ op = "aligned_alloc"
        /\ \E al \in { 0, 8, 16, 32, 64, 128 }, ln \in 0..MaxLen,
              old \in { << >>, << JunkC >> } :
             lib = [ alignment |-> al, len |-> ln, vec |-> old, bytes |-> 0 ]

SpecLib == InitLib /\ [][matrix_mult \/ aligned_alloc]_vars

-----------------------------------------------------------------------------
(* the properties *)

\* C1: csvd returns an error exactly when N < 1, or N > NBIG, or M < 1, or
\* M < N; for every other pair (M, N) the checks pass and the decomposition
\* is begun.
C1_ErrorExactly ==
  pc # "call" =>
    IF n < 1 \/ n > NBIG \/ m < 1 \/ m < n
    THEN pc = "err" /\ ret \in { ErrN1, ErrNBIG, ErrM1, ErrMN }
    ELSE pc = "col" /\ ret \notin { ErrN1, ErrNBIG, ErrM1, ErrMN }

\* a call refused for N = NBIG + 1
C1_Witness == pc = "err" /\ n = NBIG + 1 /\ m = NBIG + 1

\* C2, as stated: every call with 1 <= N <= NBIG and 0 <= M < N returns the
\* M < N error.
C2_MLessN ==
  (pc # "call" /\ 1 <= n /\ n <= NBIG /\ m < n) =>
    (pc = "err" /\ ret = ErrMN)

\* C2, amended: every call with 1 <= N <= NBIG and 1 <= M < N returns the
\* M < N error; with M = 0 the call returns the M < 1 error.
C2_MLessNPositive ==
  (pc # "call" /\ 1 <= n /\ n <= NBIG /\ m < n) =>
    (pc = "err" /\ ret = IF m < 1 THEN ErrM1 ELSE ErrMN)

\* a call with M = 1 and N = NBIG refused with the M < N error
C2_Witness == pc = "err" /\ ret = ErrMN /\ m = 1 /\ n = NBIG

\* C3: when csvd returns a dimension error, A, S, U and V hold what they
\* held before the call: the step that returns the error writes none of them.
C3_ErrorFrame ==
  [][pc' = "err" => (a' = a /\ s' = s /\ u' = u /\ v' = v)]_vars

\* a call refused for N > NBIG while all four buffers hold elements
C3_Witness ==
  /\ pc = "err" /\ ret = ErrNBIG
  /\ Len(a) > 0 /\ Len(s) > 0 /\ Len(u) > 0 /\ Len(v) > 0
  /\ s = sin

\* C4: after every successful call of csvd the singular values are not
\* negative and stand in non-increasing order.
C4_SortedNonNegative ==
  (pc = "done" /\ op = "csvd" /\ ret = "Ok") =>
    \A i \in 0..(n - 1) :
      /\ FLe(FZero, At(s, i))
      /\ i + 1 < n => FLe(At(s, i + 1), At(s, i))

\* the 2 x 2 matrix of ones decomposed: S = (0, NaN)
C4_Witness ==
  /\ pc = "done" /\ op = "csvd" /\ ret = "Ok"
  /\ m = 2 /\ n = 2 /\ input = 1
  /\ At(s, 0) = FZero /\ IsNaN(At(s, 1))

\* C5: after csvd with P = 0, NU = M and NV = N every element of
\* U diag(S) V*, built from the first min(M, N) singular triplets, is within
\* the squared distance 1e-4 of the element of the original A.
C5_Reconstruction ==
  (pc = "done" /\ op = "csvd" /\ p = 0 /\ nu = m /\ nv = n) =>
    \A i \in 0..(m - 1), j \in 0..(n - 1) :
      FLe(SqDist(Orig(i, j), find_orig_matrix_from_svd(i, j, 0, CZero)),
          TestEps)

\* the 2 x 2 matrix of ones decomposed: the element (0, 0) of U diag(S) V*
\* is a NaN
C5_Witness ==
  /\ pc = "done" /\ op = "csvd" /\ p = 0 /\ nu = m /\ nv = n
  /\ m = 2 /\ n = 2 /\ input = 1
  /\ IsNaN(find_orig_matrix_from_svd(0, 0, 0, CZero)[1])

\* C6: after every successful call of csvd the computed columns of U are
\* pairwise orthogonal and of unit norm within the tolerance, and so are
\* those of V: the inner product of columns i and j is within the squared
\* distance 1e-4 of 1 for i = j and of 0 otherwise.
C6_Orthonormal ==
  (pc = "done" /\ op = "csvd" /\ ret = "Ok") =>
    LET RECURSIVE Inner(_, _, _, _, _, _, _)
        Inner(X, stride, rows, i, j, r, acc) ==
          IF r >= rows THEN acc
          ELSE Inner(X, stride, rows, i, j, r + 1,
                     CAdd(acc, CMul(CConj(At(X, r * stride + i)),
                                    At(X, r * stride + j))))
        Unit(i, j) == IF i = j THEN COne ELSE CZero
    IN  /\ \A i \in 0..(nu - 1), j \in 0..(nu - 1) :
             FLe(SqDist(Inner(u, m, m, i, j, 0, CZero), Unit(i, j)), TestEps)
        /\ \A i \in 0..(nv - 1), j \in 0..(nv - 1) :
             FLe(SqDist(Inner(v, n, n, i, j, 0, CZero), Unit(i, j)), TestEps)

\* the 2 x 2 matrix of ones decomposed: every element of U is a NaN
C6_Witness ==
  /\ pc = "done" /\ op = "csvd" /\ ret = "Ok"
  /\ m = 2 /\ n = 2 /\ input = 1
  /\ \A i \in 0..3 : IsNaN(At(u, i)[1])

\* C7: the matrix INV that pinv leaves satisfies A INV A = A as check_pinv
\* checks it: every element a_orig[i*m + j] is within the squared distance
\* 1e-4 of the element the products of check_pinv leave at a[i*m + j].
C7_MoorePenrose ==
  (pc = "done" /\ op = "pinv") =>
    \A i \in 0..(m - 1), j \in 0..(n - 1) :
      FLe(SqDist(At(a_orig, i * m + j), check_pinv(i, j, 0, CZero)), TestEps)

\* pinv of the 2 x 2 matrix of ones: INV holds NaNs
C7_Witness ==
  /\ pc = "done" /\ op = "pinv"
  /\ m = 2 /\ n = 2 /\ input = 1
  /\ IsNaN(At(inv, 0)[1])

\* C8: after find_pinv_from_svd the element kept for row i and column j of
\* INV is the sum over k of V[i,k] S+[k] conj(U[j,k]), for every i in 0..N
\* and j in 0..M, and no two of the N*M elements are kept at one position.
C8_ProductEntries ==
  (pc = "done" /\ op = "find_pinv") =>
    LET RECURSIVE Sum(_, _, _, _)
        Sum(i, j, x, acc) ==
          IF x >= n THEN acc
          ELSE Sum(i, j, x + 1,
                   CAdd(acc, CMul(CScale(At(v, i * n + x), At(s, x)),
                                  CConj(At(u, j * m + x)))))
    IN  /\ \A i \in 0..(n - 1), j \in 0..(m - 1) :
             At(inv, InvPos(i, j)) = Sum(i, j, 0, CZero)
        /\ \A i1 \in 0..(n - 1), j1 \in 0..(m - 1) :
             \A i2 \in 0..(n - 1), j2 \in 0..(m - 1) :
               InvPos(i1, j1) = InvPos(i2, j2) => (i1 = i2 /\ j1 = j2)

\* M = 3, N = 2, S = (1, -0): position 2 of INV holds the element (1, 0),
\* V[1,0] conj(U[0,0]) = i, written over the element (0, 2), and position 5
\* holds what it held before the call
C8_Witness ==
  /\ pc = "done" /\ op = "find_pinv"
  /\ m = 3 /\ n = 2 /\ input = 0
  /\ sin = << FOne, FNeg(FZero) >>
  /\ At(inv, 2) = << FZero, FOne >>
  /\ At(inv, 5) = JunkC

\* C9, as stated: the reciprocal step leaves 0 for every S[i] that is at most
\* the cut-off and 1 / S[i] for every S[i] above it; no element is infinite
\* or a NaN, and every element lies in [0, 10000).
C9_ReciprocalBelow ==
  (op = "find_pinv" /\ pc \in { "extend", "product", "done" }) =>
    \A i \in 0..(n - 1) :
      /\ FLe(At(sin, i), PinvEps) => At(s, i) = FZero
      /\ FGt(At(sin, i), PinvEps) => At(s, i) = FDiv(FOne, At(sin, i))
      /\ IsFinite(At(s, i))
      /\ FLe(FZero, At(s, i))
      /\ FLt(At(s, i), FromInt(10000))

\* C9, amended: the same, with every element in [0, 10000], the bound
\* included: the reciprocal of the least binary32 value above the cut-off
\* rounds to 10000.
C9_Reciprocal ==
  (op = "find_pinv" /\ pc \in { "extend", "product", "done" }) =>
    \A i \in 0..(n - 1) :
      /\ FLe(At(sin, i), PinvEps) => At(s, i) = FZero
      /\ FGt(At(sin, i), PinvEps) => At(s, i) = FDiv(FOne, At(sin, i))
      /\ IsFinite(At(s, i))
      /\ FLe(FZero, At(s, i))
      /\ FLe(At(s, i), FromInt(10000))

\* the reciprocal step has met the least value above the cut-off, and an
\* element at the cut-off
C9_Witness ==
  /\ op = "find_pinv" /\ pc = "extend"
  /\ \E i \in 0..(n - 1) :
       At(sin, i) = PinvEps + 1 /\ At(s, i) = FromInt(10000)
  /\ \E i \in 0..(n - 1) : At(sin, i) = PinvEps /\ At(s, i) = FZero

\* C10: find_pinv_from_svd, called with S of length N, leaves S of length M,
\* the elements N .. M-1 all 0, and the product loop reads the elements
\* 0 .. N-1 of S and no other.
C10_Extended ==
  op = "find_pinv" =>
    /\ pc \in { "product", "done" } =>
         /\ Len(sin) = n
         /\ Len(s) = m
         /\ \A i \in n..(m - 1) : At(s, i) = FZero
    /\ pc = "done" => sread = 0..(n - 1)

\* a call with M > N has returned
C10_Witness ==
  op = "find_pinv" /\ pc = "done" /\ n < m /\ Len(s) = m /\ Len(sin) = n

\* C11: pinv fails exactly when the dimensions fail one of the four checks of
\* csvd, which is at its call of csvd and nowhere later; it then returns the
\* error of csvd, and the failing step writes neither inverse_mat nor
\* input_mat.
C11_PinvError ==
  [][op = "pinv" =>
       /\ (pc' = "err") <=>
            (pc = "call" /\ (n < 1 \/ NBIG < n \/ m < 1 \/ m < n))
       /\ pc' = "err" =>
            /\ ret' = CsvdCheck(m, n)
            /\ ret' \in { ErrN1, ErrNBIG, ErrM1, ErrMN }
            /\ inv' = inv
            /\ a' = a]_vars

\* pinv of a 1 x 2 matrix has failed with the error of csvd for M < N, and
\* inverse_mat still holds what the caller left in it
C11_Witness ==
  /\ op = "pinv" /\ pc = "err" /\ ret = ErrMN
  /\ m = 1 /\ n = 2
  /\ inv = Fill(2, JunkC)
  /\ a = InputA(input, 1, 2, layout)

\* C12: csvd writes only the first NU columns of U and the first NV columns
\* of V: at every point of a call each element of a column of U with index
\* >= NU, and of a column of V with index >= NV, is what the caller passed,
\* and with NU = 0 (NV = 0) the whole of U (V) is.
C12_ColumnsBeyond ==
  op = "csvd" =>
    /\ \A i \in 0..(m - 1), j \in nu..(m - 1) : At(u, i * m + j) = JunkC
    /\ \A i \in 0..(n - 1), j \in nv..(n - 1) : At(v, i * n + j) = JunkC
    /\ nu = 0 => u = Fill(m * m, JunkC)
    /\ nv = 0 => v = Fill(n * n, JunkC)

\* a call for one column of U and one column of V of a 2 x 2 matrix has
\* returned, and column 1 of U or of V is no longer what the caller passed
C12_Witness ==
  /\ op = "csvd" /\ pc = "done" /\ ret = "Ok"
  /\ m = 2 /\ n = 2 /\ nu = 1 /\ nv = 1
  /\ \/ At(u, 1) # JunkC \/ At(u, 3) # JunkC
     \/ At(v, 1) # JunkC \/ At(v, 3) # JunkC

\* C13: with 1 <= N <= M and P = 0 a call on the flattened row-major M x N
\* matrix of M*N elements never reaches for a position of A outside those
\* M*N elements.
C13_InRange ==
  (op = "csvd" /\ layout = "tight" /\ Len(a) = m * n
     /\ 1 <= n /\ n <= m /\ p = 0) => pc # "panic"

\* a call on the row-major 2 x 1 matrix of 2 elements has stopped at an
\* index out of range, with nothing written
C13_Witness ==
  /\ op = "csvd" /\ layout = "tight" /\ pc = "panic"
  /\ m = 2 /\ n = 1 /\ p = 0
  /\ a = InputA(input, 2, 1, "tight") /\ Len(a) = 2
  /\ s = sin

\* C14: after csvd with P > 0 and the whole of U computed, the P further
\* columns of A hold U* times what the caller passed in them: the element of
\* row i and column j, N <= j < N+P, is within the squared distance 1e-4 of
\* the sum over r of conj(U[r, i]) * A0[r, j].  (The rows of A are taken M
\* apart and N+P <= M, so that no two of them share a position.)
C14_Premultiplied ==
  (pc = "done" /\ op = "csvd" /\ 0 < p /\ nu = m /\ n + p <= m
     /\ layout = "strided") =>
    LET RECURSIVE UStarB(_, _, _, _)
        UStarB(i, j, r, acc) ==
          IF r >= m THEN acc
          ELSE UStarB(i, j, r + 1,
                      CAdd(acc, CMul(CConj(At(u, r * m + i)), Orig(r, j))))
    IN  \A i \in 0..(m - 1), j \in n..(n + p - 1) :
          FLe(SqDist(At(a, i * m + j), UStarB(i, j, 0, CZero)), TestEps)

\* a 3 x 2 matrix with one further column decomposed with a QR sweep and no
\* NaN: the singular values are finite and in order, and the further column
\* is not U* times the column passed
C14_Witness ==
  /\ pc = "done" /\ op = "csvd" /\ ret = "Ok"
  /\ m = 3 /\ n = 2 /\ p = 1 /\ nu = 3 /\ nv = 2
  /\ layout = "strided" /\ input = 0
  /\ FLt(FZero, At(s, 1)) /\ FLt(At(s, 1), At(s, 0))
  /\ \A i \in 0..3 : ~IsNaN(At(u, i)[1])
  /\ ~C14_Premultiplied

\* C15: every call of csvd with valid dimensions, 1 <= N <= M and N <= NBIG,
\* eventually returns Ok.
C15_Terminates ==
  (op = "csvd" /\ pc = "call" /\ 1 <= n /\ n <= m /\ n <= NBIG)
    ~> (pc = "done" /\ ret = "Ok")

\* what does hold: the loop of every index k reaches its converged exit, and
\* a call with valid dimensions that has got past the column norms of Phase 1
\* returns Ok
C15_Probe ==
  (op = "csvd" /\ pc = "call" /\ 1 <= n /\ n <= m /\ n <= NBIG)
    ~> (pc = "panic" \/ (pc = "done" /\ ret = "Ok"))

\* every step of a call moves its position or its index k
C15_StepsMove == [][<< pc, k >>' # << pc, k >>]_vars

\* a call with the valid dimensions 2 x 1 on the row-major matrix of 2
\* elements has stopped in a panic and will never return Ok
C15_Witness ==
  /\ op = "csvd" /\ pc = "panic" /\ ret = "none"
  /\ m = 2 /\ n = 1 /\ p = 0 /\ layout = "tight" /\ Len(a) = 2

\* C16: csvd keeps no state across calls: a call made again after it has run
\* alone, whatever the first run left in the memory of its locals, with its
\* steps interleaved in any order with those of a second call of any
\* arguments on buffers of its own, ends as it ended alone and leaves A, S, U
\* and V exactly as it left them alone; and so does the second call when its
\* arguments are those of the first.
C16_NoSharedState ==
  other # << >> =>
    /\ (pc \in { "done", "err", "panic" }
          /\ << m, n, p, nu, nv, input, layout >> = other[26][1]) =>
         << pc, ret, a, s, u, v >> = other[26][2]
    /\ (other[1] \in { "done", "err", "panic" }
          /\ << other[3], other[4], other[5], other[6], other[7], other[21],
                other[22] >> = other[26][1]) =>
         << other[1], other[20], other[8], other[9], other[10], other[11] >>
           = other[26][2]

\* the call on matrix 0 as 2 x 2, made again, has ended next to a call on
\* another matrix that has ended too: it has returned Ok with the two
\* singular values it left when it ran alone
C16_Witness ==
  /\ other # << >> /\ pc = "done" /\ other[1] = "done"
  /\ m = 2 /\ n = 2 /\ input = 0 /\ other[21] # 0
  /\ << m, n, p, nu, nv, input, layout >> = other[26][1]
  /\ FLt(FZero, At(s, 1)) /\ FLt(At(s, 1), At(s, 0))
  /\ s = other[26][2][4] /\ s # sin /\ s # other[9]

\* C17: matrix_mult on buffers as long as the dimensions say returns the
\* error whenever a_cols # b_rows, and then leaves mat_c as it was; it
\* returns Ok whenever a_cols = b_rows.
C17_DimensionCheck ==
  [][(op = "matrix_mult"
        /\ Len(lib.mat_a) = lib.a_rows * lib.a_cols
        /\ Len(lib.mat_b) = lib.b_rows * lib.b_cols
        /\ Len(lib.mat_c) = lib.a_rows * lib.b_cols) =>
       IF lib.a_cols # lib.b_rows
       THEN /\ pc' = "err"
            /\ ret' = "Matrix dimension not compatible!"
            /\ lib'.mat_c = lib.mat_c
       ELSE /\ pc' = "done"
            /\ ret' = "Ok"]_vars

\* a 2 x 1 matrix times a 2 x 2 matrix has been refused, and mat_c holds the
\* four elements the caller left in it
C17_Witness ==
  /\ op = "matrix_mult" /\ pc = "err"
  /\ ret = "Matrix dimension not compatible!"
  /\ lib.a_rows = 2 /\ lib.a_cols = 1 /\ lib.b_rows = 2 /\ lib.b_cols = 2
  /\ lib.mat_c = Fill(4, JunkC)

\* C18: after a successful matrix_mult every element (i, j) of mat_c,
\* i < a_rows and j < b_cols, is the sum over k of A[i, k] * B[k, j], whatever
\* mat_c held before.
C18_Product ==
  (op = "matrix_mult" /\ pc = "done") =>
    LET RECURSIVE Sum(_, _, _, _)
        Sum(i, j, x, acc) ==
          IF x >= lib.a_cols THEN acc
          ELSE Sum(i, j, x + 1,
                   CAdd(acc, CMul(At(lib.mat_a, i * lib.a_cols + x),
                                  At(lib.mat_b, x * lib.b_cols + j))))
    IN  \A i \in 0..(lib.a_rows - 1), j \in 0..(lib.b_cols - 1) :
          At(lib.mat_c, i * lib.b_cols + j) = Sum(i, j, 0, CZero)

\* the 1 x 1 matrix 1 times the 1 x 1 matrix 1 on a mat_c that held 5 - 3i:
\* mat_c holds 6 - 3i
C18_Witness ==
  /\ op = "matrix_mult" /\ pc = "done" /\ ret = "Ok"
  /\ lib.a_rows = 1 /\ lib.a_cols = 1 /\ lib.b_rows = 1 /\ lib.b_cols = 1
  /\ lib.mat_a = << Cx(1, 0) >> /\ lib.mat_b = << Cx(1, 0) >>
  /\ lib.mat_c = << Cx(6, -3) >>

\* C19: aligned_alloc with the alignment 16, 32 or 64 returns Ok with a
\* vector of len elements, all zero, on an allocation of at least 8 * len
\* bytes, for every len; with any other alignment it returns the error.
C19_Allocated ==
  (op = "aligned_alloc" /\ pc # "call") =>
    IF lib.alignment \in { 16, 32, 64 }
    THEN /\ pc = "done" /\ ret = "Ok"
         /\ lib.vec = Fill(lib.len, CZero)
         /\ lib.bytes >= 8 * lib.len
    ELSE /\ pc = "err" /\ ret = "Invalid alignment input"

\* aligned_alloc(16, 1, vec) has returned Ok with a vector of one element on
\* an allocation of no bytes
C19_Witness ==
  /\ op = "aligned_alloc" /\ pc = "done" /\ ret = "Ok"
  /\ lib.alignment = 16 /\ lib.len = 1
  /\ lib.vec = << CZero >> /\ lib.bytes = 0

\* C20: Phase 2 takes the indices k = N-1 down to 0, each once: only the
\* converged exit moves k, by one, and from 0 it goes on to the sort.  The
\* converged exit of index k leaves S[k] >= 0, negating the captured value w
\* exactly when it is negative; no step made for index k writes an S[i] or a
\* T[i] with i > k; and when the sort starts every S[i] is >= 0.
C20_Phase2 ==
  [][/\ pc = "init" => (pc' = "scan" /\ k' = n - 1)
     /\ pc \in { "scan", "cancel", "test", "qr" } =>
          (k' = k /\ pc' \in { "scan", "cancel", "test", "qr", "converged",
                               "panic" })
     /\ pc = "converged" =>
          /\ IF k = 0 THEN pc' = "sort" ELSE pc' = "scan" /\ k' = k - 1
          /\ At(s', k) = IF FLt(w, FZero) THEN FNeg(w) ELSE At(s, k)
          /\ FLe(FZero, At(s', k))
     /\ pc \in { "scan", "cancel", "test", "qr", "converged" } =>
          \A i \in (k + 1)..(n - 1) :
            At(s', i) = At(s, i) /\ At(t', i) = At(t, i)
     /\ (pc = "converged" /\ pc' = "sort") =>
          \A i \in 0..(n - 1) : FLe(FZero, At(s', i))]_vars

\* the 2 x 2 matrix of ones: Phase 2 is over and the sort about to start,
\* and S[1], finished first, is a NaN
C20_Witness ==
  /\ op = "csvd" /\ pc = "sort" /\ k = 0
  /\ m = 2 /\ n = 2 /\ input = 1
  /\ IsNaN(At(s, 1)) /\ IsNaN(w) = FALSE

\* C21: at every split test T[0] = 0, the scan never comes to S[l-1] with
\* l = 0, and every index the call uses on S, T, B or C lies in 0..N-1 and so
\* below NBIG.
C21_IndicesInN ==
  op = "csvd" =>
    /\ pc = "scan" => At(t, 0) = FZero
    /\ \A x \in used : 0 <= x[2] /\ x[2] <= n - 1 /\ x[2] < NBIG

\* C21 as the code has it: at every split test T[0] = 0 and the scan never
\* comes to S[l-1] with l = 0; every index the call uses on S, T and B lies in
\* 0..N-1, and every index it uses on C lies in 0..N-1 or is the 1 of the
\* assignment c[1] = 0.0 that every call starts with; all are below NBIG.
C21_IndicesInNOrOne ==
  op = "csvd" =>
    /\ pc = "scan" => At(t, 0) = FZero
    /\ \A x \in used :
         /\ x = << "c", 1 >> \/ (0 <= x[2] /\ x[2] <= n - 1)
         /\ x[2] < NBIG

\* a call with N = 1 has returned: it has made its split test on T[0] and
\* used the index 1 on C
C21_Witness ==
  /\ op = "csvd" /\ pc = "done" /\ ret = "Ok" /\ n = 1
  /\ << "t", 0 >> \in used /\ << "c", 1 >> \in used
  /\ At(t, 0) = FZero

\* C22: in each pass of the inner loop for index k the scan yields the largest
\* l <= k with |T[l]| <= eps or |S[l-1]| <= eps; the cancellation sweep from l
\* to k is run exactly when |T[l]| > eps and |S[l-1]| <= eps; the index is
\* declared converged exactly when l = k, and otherwise one shift-and-QR sweep
\* is run with l and k as they are and the scan is repeated.
C22_InnerLoop ==
  [][LET TSmall(j) == FLe(abs(At(t, j)), eps)
         SSmall(j) == j >= 1 /\ FLe(abs(At(s, j - 1)), eps)
     IN  /\ pc = "scan" =>
              /\ l' \in 0..k /\ k' = k
              /\ TSmall(l') \/ SSmall(l')
              /\ \A j \in (l' + 1)..k : ~TSmall(j) /\ ~SSmall(j)
              /\ pc' = "cancel" <=> (~TSmall(l') /\ SSmall(l'))
              /\ pc' = "test" <=> TSmall(l')
              /\ s' = s /\ t' = t /\ u' = u /\ v' = v
         /\ pc = "cancel" =>
              /\ ~TSmall(l) /\ SSmall(l)
              /\ pc' = "test" /\ l' = l /\ k' = k
              /\ ({ "t" } \X { l }) \subseteq used'
         /\ pc = "test" =>
              /\ pc' = "converged" <=> l = k
              /\ pc' = "qr" <=> l # k
              /\ l' = l /\ k' = k
              /\ s' = s /\ t' = t /\ u' = u /\ v' = v
         /\ pc = "qr" =>
              /\ l < k
              /\ pc' = "scan" /\ k' = k
              /\ ({ "s", "t" } \X (l..k)) \subseteq used'
    ]_vars

\* the scan has stopped at an l >= 1 by the test on S[l-1] while T[l] is above
\* eps: the cancellation sweep is about to run
C22_Witness ==
  /\ op = "csvd" /\ pc = "cancel"
  /\ 1 <= l /\ l <= k
  /\ ~FLe(abs(At(t, l)), eps)
  /\ FLe(abs(At(s, l - 1)), eps)

\* C23: the sort only permutes: with NU >= N and NV >= N every pass of the
\* sort interchanges two indices j and k (or none), S, the columns of U over
\* all M rows and the columns of V being moved by that same interchange, so
\* every triplet (S[i], column i of U, column i of V) is found unchanged at
\* some index after it.
C23_SortPermutes ==
  [][(op = "csvd" /\ pc = "sort" /\ nu >= n /\ nv >= n) =>
       \E j \in k..(n - 1) :
         LET to(i) == IF i = k THEN j ELSE IF i = j THEN k ELSE i
         IN  /\ Len(s') = Len(s) /\ Len(u') = Len(u) /\ Len(v') = Len(v)
             /\ \A i \in 0..(n - 1) : At(s', to(i)) = At(s, i)
             /\ \A i \in 0..(n - 1) : \A row \in 0..(m - 1) :
                  At(u', row * m + to(i)) = At(u, row * m + i)
             /\ \A i \in 0..(n - 1) : \A row \in 0..(n - 1) :
                  At(v', row * n + to(i)) = At(v, row * n + i)
    ]_vars

\* a pass of the sort with M > N, NU >= N and NV >= N is about to interchange
\* index k with a later index whose columns of U and of V differ from those
\* at k
C23_Witness ==
  /\ op = "csvd" /\ pc = "sort" /\ nu >= n /\ nv >= n /\ m > n
  /\ \E j \in (k + 1)..(n - 1) :
       /\ FLt(At(s, k), At(s, j))
       /\ \E row \in 0..(n - 1) :
            /\ At(u, row * m + j) # At(u, row * m + k)
            /\ At(v, row * n + j) # At(v, row * n + k)

\* C24: in Phase 1 the column reflector for column k writes elements of rows
\* k..M-1 in the columns k..N+P-1, the P auxiliary columns included, while the
\* row elimination for row k writes only elements of the columns k+1..N-1:
\* no element of an auxiliary column N..N+P-1 is modified by it.
C24_RowElimination ==
  [][op = "csvd" =>
       /\ pc = "row" =>
            /\ \A i \in 0..(m - 1) : \A j \in n..(n + p - 1) :
                 i * m + j < Len(a) => At(a', i * m + j) = At(a, i * m + j)
            /\ \A x \in 0..(Len(a) - 1) :
                 At(a', x) # At(a, x) =>
                   \E i \in k..(m - 1) : \E j \in (k + 1)..(n - 1) :
                     x = i * m + j
            /\ Len(a') = Len(a)
       /\ (pc = "col" /\ pc' # "panic") =>
            /\ \A x \in 0..(Len(a) - 1) :
                 At(a', x) # At(a, x) =>
                   \E i \in k..(m - 1) : \E j \in k..(n + p - 1) :
                     x = i * m + j
            /\ Len(a') = Len(a)
    ]_vars

\* M = N = 2, P = 2: the row elimination for row 0 is about to change a[3],
\* which is the element of row 1 and column 1 and, with the row stride M that
\* the code uses, also the element of row 0 and the auxiliary column 3
C24_Witness ==
  /\ op = "csvd" /\ pc = "row" /\ k = 0
  /\ m = 2 /\ n = 2 /\ p = 2
  /\ FLt(tol, RowNormSq(1, FZero))
  /\ At(RowEliminate(sqrt(RowNormSq(1, FZero))), 0 * m + 3) # At(a, 0 * m + 3)

\* C25: from the initialization to the end of the sort every element of U and
\* of V that the next step of Phase 2 or of the sort reads has imaginary part
\* 0: the columns l-1 and l of U for the cancellation, the columns l..k of U
\* and of V for the QR sweep, the column k of V for the change of sign, the
\* columns k and j of U and of V for the interchange of the sort.
C25_RealUV ==
  LET RealU(col) == \A row \in 0..(n - 1) :
                      FEq(At(u, row * m + col)[2], FZero)
      RealV(col) == \A row \in 0..(n - 1) :
                      FEq(At(v, row * n + col)[2], FZero)
  IN  op = "csvd" =>
        /\ (pc = "cancel" /\ 0 < nu) => RealU(l - 1) /\ RealU(l)
        /\ (pc = "qr" /\ 0 < nu) => \A col \in l..k : RealU(col)
        /\ (pc = "qr" /\ 0 < nv) => \A col \in l..k : RealV(col)
        /\ (pc = "converged" /\ FLt(w, FZero) /\ 0 < nv) => RealV(k)
        /\ (pc = "sort" /\ SortMax(k, FNeg(FOne), k)[2] # k /\ 0 < nu) =>
             RealU(k) /\ RealU(SortMax(k, FNeg(FOne), k)[2])
        /\ (pc = "sort" /\ SortMax(k, FNeg(FOne), k)[2] # k /\ 0 < nv) =>
             RealV(k) /\ RealV(SortMax(k, FNeg(FOne), k)[2])

\* the same for the calls in which every column that is read has been
\* initialized: NU and NV are 0 or at least N
C25_RealWhenInitialized ==
  ((nu = 0 \/ nu >= n) /\ (nv = 0 \/ nv >= n)) => C25_RealUV

\* the cancellation is about to rotate the columns 0 and 1 of U with
\* NU = 1 < N = 2: column 1 was not initialized and holds the caller's values,
\* of imaginary part -3
C25_Witness ==
  /\ op = "csvd" /\ pc = "cancel" /\ l = 1 /\ k = 1
  /\ m = 2 /\ n = 2 /\ nu = 1 /\ p = 0
  /\ At(u, 0 * m + 1) = JunkC
  /\ ~FEq(At(u, 0 * m + 1)[2], FZero)
=============================================================================
